---- MODULE Spec2Model ----
(***************************************************************************)
(* Verification model of the PCB Gerber/Excellon -> G-code converter.      *)
(*                                                                         *)
(* Three specifications share this module:                                 *)
(*   SpecDedupe  excellon_parser.dedupe_holes_by_xy, one loop iteration    *)
(*               per step                                                  *)
(*   SpecPlan    MainWindow._plan_drills_for_holes followed by             *)
(*               drilling._assign_holes_to_drills on the returned plan     *)
(*   Spec        MainWindow.run_job and the G-code files it writes         *)
(* Lengths and diameters are integers (a fixed sub-millimetre unit).       *)
(***************************************************************************)
EXTENDS Integers, Sequences, FiniteSets, TLC

VARIABLES
    \* ---- excellon_parser.dedupe_holes_by_xy ----
    holes,      \* the input list [(x, y, d)]
    tol_xy,     \* the merge radius
    k,          \* index of the next element of holes the for loop takes
    out,        \* the kept records (the list that is returned)
    grid,       \* grid[idx] = the bin under which out[idx] was registered
    \* ---- MainWindow._plan_drills_for_holes, drilling._assign_holes_to_drills ----
    hole_ds,        \* the small-hole diameters
    candidate_bits, \* the candidate drill bits [name, diameter]
    tol,            \* hole_match_tol
    max_bits,       \* max_drills
    plan_pc,        \* "start", "reduce" (at the while test), "done", "assigned"
    assign_idx,     \* assign_idx[n] = index into drills of hole n's drill
    used,           \* the indices of the drills in use
    ret,            \* what _plan_drills_for_holes returned
    assigned,       \* what _assign_holes_to_drills returned for ret.planned
    \* ---- MainWindow.run_job and the output files ----
    prefix,          \* state.prefix: "" until a board is picked
    inputs,          \* the picked board, the bit library and the directory as found
    checked,         \* keys of the checked items of the layer list
    selected_ops,    \* state.selected_ops
    combined,        \* state.combined
    probe_on_start,  \* job setting probe_on_start
    probe_gcode,     \* job setting probe_gcode, as its non-blank lines
    rpm,             \* rpm of the bits in the library
    spindle_warmup_s,\* job setting spindle_warmup_s
    preflight_level, \* state.preflight_level
    saves,           \* number of save_settings calls so far
    files,           \* the .nc files of the gerber directory
    jobs,            \* number of jobs that got past the preflight dialog
    result,          \* how the last run_job call ended; "none" after any other handler
    ran,             \* the operations the last job called, in call order
    \* ---- gerber_parser.parse_gerber_full, _compose_dark_clear ----
    glines,  \* the commands of the Gerber file, in file order
    line_no,  \* number of commands consumed so far
    polarity,  \* the current polarity, D or C
    dark_geoms,  \* the dark objects collected so far
    clear_geoms,  \* the clear objects collected so far
    \* ---- parse_excellon_file / parse_gerber_full: warnings and strict ----
    parser,  \* which parser runs, excellon or gerber
    strict,  \* the strict argument
    conds,  \* the warning conditions the input holds, in the order the parser meets them
    ci,  \* number of conditions met so far
    warnings,  \* the conditions logged as warnings so far
    outcome,  \* parsing, returned, ParseError or FileNotFoundError
    \* ---- board_outline.run_outline: tabs and the outline walk (lengths in 0.1 mm) ----
    tabs_enabled,  \* the tabs_enabled argument
    length,  \* outline.length, the perimeter
    ramp_len,  \* the bit's ramp length
    tab_positions,  \* the tab centres found so far
    tab_d,  \* d of the tab placement loop
    dist,  \* arc length reached by the walk
    cuts,  \* the pieces of outline cut so far, with the depth of each
    walk_pc,  \* tabs, walk or done
    seg_end,  \* arc length of coords[ramp_seg_i], the end of the segment the ramp ends in
    tool_moves,  \* the G1 moves of the walk as the tool makes them: [from, to, depth]
    \* ---- geom_utils.order_lines_nearest (points on one axis) ----
    lines,  \* the lines argument, each polyline as its coordinate list
    start_xy,  \* the start_xy argument
    allow_reverse,  \* the allow_reverse argument
    remaining,  \* polylines not yet placed
    placed,  \* ordered: polylines placed so far
    cur,  \* the cursor
    order_pc,  \* loop or done
    \* ---- _parse_rs274x_coord and ExcellonFile._parse_fixed ----
    token,  \* the token, its sign and its digit characters
    int_d,  \* integer digits of the format
    dec_d,  \* decimal digits of the format
    zero_mode,  \* L or T (Excellon: leading or trailing)
    gerber_val,  \* result of _parse_rs274x_coord, none before the call
    excellon_val,  \* result of _parse_fixed, none before the call
    \* ---- excellon_parser.parse_excellon_file: holes and routed slots ----
    ex_tools,  \* ex.tools, the tools the header defines
    ex_lines,  \* the lines of the file after the header
    ex_no,  \* number of lines read
    route_mode,  \* route_mode
    last_route_xy,  \* last_route_xy, 0 for None
    current_tool,  \* current_tool, 0 for None
    tool_holes,  \* the holes list of each tool
    ex_slots,  \* ex._slots
    \* ---- board_outline._stepdown_list (depths in units of 1e-9 mm) ----
    full_depth,  \* the full_depth argument
    stepdown,  \* the stepdown argument: given or None, and its value
    sd_d,  \* d of the loop
    sd_out,  \* out
    sd_pc,  \* loop or done
    \* ---- retract heights of the operation writers ----
    job_safe_z,  \* [job] safe_z of job_settings.ini: NoKey or Key(v)
    retracts,  \* the retract moves written so far: [op, z]
    writer_no,  \* index in Writers of the last writer that ran
    \* ---- board_outline._write_polyline ----
    poly_pts,  \* pts
    poly_ramp_len,  \* ramp_len
    ramp_remaining,  \* remaining
    ramp_p0,  \* p0
    ramp_i,  \* loop index i (1-based: the point examined next)
    ramp_pt,  \* ramp_pt, NoRampPt for None
    ramp_index,  \* ramp_index (1-based)
    gmoves,  \* the moves written, in order
    poly_pc,  \* start, scan, write or done
    \* ---- board_outline._slot_offsets ----
    slot_w,  \* slot_w
    tool_d,  \* tool_d
    so_r,  \* r
    so_offsets,  \* offsets
    so_out,  \* the returned list, <<>> before the return
    so_pc,  \* start, loop or done
    \* ---- board_outline._mill_hole ----
    mh_hole_d,  \* hole_d
    mh_tool_d,  \* tool_d = bit diameter
    mh_full_depth,  \* full_depth
    mh_rr,  \* rr
    mh_rings,  \* rings
    mh_writes,  \* the polylines written: [z, r]
    mh_pc,  \* start, rings, write or done
    \* ---- holes drilled by run_drill and milled by run_outline ----
    th_holes,  \* hole diameters of the deduplicated list
    th_mill_over,  \* mill_holes_over
    th_router_d,  \* diameter of the through-cut bit
    th_drill_mode,  \* drill_mode
    th_target,  \* single_drill_diam
    th_tol,  \* hole_match_tol
    th_drill_bits,  \* drill_bits passed to run_drill, <<>> for the legacy call
    drilled,  \* indices of the holes pecked
    milled,  \* indices of the holes with at least one ring
    th_ran,  \* operations that have run
    \* ---- write phase of board_outline.run_outline ----
    oc_slots,  \* slots: [p1, p2, w]
    oc_holes,  \* diameters of big_holes + extra_mill_holes
    oc_coords,  \* the outline has coordinates
    oc_out,  \* what was written, in order
    oc_pc,  \* start or done
    \* ---- gerber_parser.parse_gerber_full: apertures, draws and flashes ----
    ap_lines,  \* the lines of the file
    ap_strict,  \* strict
    ap_polarity,  \* polarity
    ap_no,  \* lines consumed
    ap_table,  \* aps (ids defined so far)
    ap_cur,  \* cur, <<>> for None
    ap_prev,  \* prev, <<>> for None
    tracks,  \* tracks: <<aperture, from, to>>
    flashes,  \* flashes: <<aperture, at>>
    ap_dark,  \* geometries appended to dark_geoms
    ap_clear,  \* geometries appended to clear_geoms
    ap_warnings,  \* warnings logged
    ap_pc,  \* parsing or raised
    \* ---- excellon_parser: tool table and drill hits ----
    td_lines,  \* the body lines
    td_no,  \* lines consumed
    td_tools,  \* ex.tools
    td_current,  \* current_tool, 0 for None
    td_hits  \* (point, diameter) of every hit made under a defined, selected tool

dedupeVars == <<holes, tol_xy, k, out, grid>>

planVars == <<hole_ds, candidate_bits, tol, max_bits, plan_pc, assign_idx, used, ret, assigned>>

jobVars == <<prefix, inputs, checked, selected_ops, combined, probe_on_start, probe_gcode,
             rpm, spindle_warmup_s, preflight_level, saves, files, jobs, result, ran>>

gerberVars == <<glines, line_no, polarity, dark_geoms, clear_geoms>>

strictVars == <<parser, strict, conds, ci, warnings, outcome>>

tabVars == <<tabs_enabled, length, ramp_len, tab_positions, tab_d, dist, cuts, walk_pc, seg_end,
            tool_moves>>

orderVars == <<lines, start_xy, allow_reverse, remaining, placed, cur, order_pc>>

coordVars == <<token, int_d, dec_d, zero_mode, gerber_val, excellon_val>>

routeVars == <<ex_tools, ex_lines, ex_no, route_mode, last_route_xy, current_tool, tool_holes, ex_slots>>

stepVars == <<full_depth, stepdown, sd_d, sd_out, sd_pc>>

retractVars == <<job_safe_z, retracts, writer_no>>

polyVars == <<poly_pts, poly_ramp_len, ramp_remaining, ramp_p0, ramp_i, ramp_pt, ramp_index, gmoves, poly_pc>>

slotVars == <<slot_w, tool_d, so_r, so_offsets, so_out, so_pc>>

millVars == <<mh_hole_d, mh_tool_d, mh_full_depth, mh_rr, mh_rings, mh_writes, mh_pc>>

throughVars == <<th_holes, th_mill_over, th_router_d, th_drill_mode, th_target, th_tol, th_drill_bits, drilled, milled, th_ran>>

cutsVars == <<oc_slots, oc_holes, oc_coords, oc_out, oc_pc>>

apertureVars == <<ap_lines, ap_strict, ap_polarity, ap_no, ap_table, ap_cur, ap_prev, tracks, flashes, ap_dark, ap_clear, ap_warnings, ap_pc>>

toolVars == <<td_lines, td_no, td_tools, td_current, td_hits>>

vars == <<dedupeVars, planVars, jobVars, gerberVars, strictVars, tabVars, orderVars, coordVars, routeVars, stepVars, retractVars, polyVars, slotVars, millVars, throughVars, cutsVars, apertureVars, toolVars>>

\* ------------------------------------------------------------------ bounds
MaxHoles == 3
MaxX == 3
MaxPlanHoles == 3
MaxCand == 3
MaxD == 3
MaxJobs == 2
MaxCmds == 4
NCells == 2
MaxConds == 3
MaxSpacing == 12
MaxPt == 2
MaxLines == 2
MaxDigit == 2
MaxTok == 3
MaxFmt == 2
MaxBody == 6
MaxDepth == 6
MaxStep == 3

\* largest configured safe_z (mm)
MaxSafeZ == 8

\* polyline writer: largest coordinate, most vertices, longest ramp (mm)
MaxCoord == 1

MaxVerts == 4

MaxRamp == 3

\* slot offsets: largest tool (units of 5e-9 mm), largest half-clearance (1e-9 mm)
MaxTool == 3

MaxOff == 12

\* milled holes: largest router bit (units of 0.5 mm), largest ring radius (0.1 mm)
MaxMillTool == 2

MaxRingOff == 10

\* through holes: most holes, largest diameter (steps of 0.3 mm above 0.6 mm)
MaxThHoles == 2

MaxThD == 4

\* through cuts: most slots
MaxSlots == 2

\* aperture model: most lines, largest coordinate
MaxApLines == 3

MaxApPt == 1

\* tool table model: most body lines
MaxDefLines == 4

\* ---------------------------------------------------------------- helpers
SeqsUpTo(S, n) == UNION {[1..m -> S] : m \in 0..n}

Abs(v) == IF v < 0 THEN -v ELSE v

\* Python's round(): to the nearest integer, ties to the even one.
\* n / d for d > 0.
RoundHalfEven(n, d) ==
    LET q == n \div d
        r == n % d
    IN  IF 2 * r < d THEN q
        ELSE IF 2 * r > d THEN q + 1
        ELSE IF q % 2 = 0 THEN q ELSE q + 1

\* ===================================================================
\* excellon_parser.dedupe_holes_by_xy
\* ===================================================================
HoleRecs == [x : 1..MaxX, y : 0..1, d : 1..2]

Dist2(a, b) == (a.x - b.x) * (a.x - b.x) + (a.y - b.y) * (a.y - b.y)

\* cell(x, y) = (int(round(x * inv)), int(round(y * inv))), inv = 1 / tol_xy
cell(h) == <<RoundHalfEven(h.x, tol_xy), RoundHalfEven(h.y, tol_xy)>>

\* The records the neighbour-bin search of hole h can see and accepts:
\* registered in one of the 3 x 3 bins around cell(h), within tol_xy of h.
Hits(h) ==
    {idx \in 1..Len(out) :
        /\ Abs(grid[idx][1] - cell(h)[1]) <= 1
        /\ Abs(grid[idx][2] - cell(h)[2]) <= 1
        /\ Dist2(h, out[idx]) <= tol_xy * tol_xy}

\* Position of record idx in the search: bins in the order of the two
\* for loops over (-1, 0, 1), then the bin's list in insertion order.
ScanRank(h, idx) ==
    ((grid[idx][1] - cell(h)[1] + 1) * 3 + (grid[idx][2] - cell(h)[2] + 1))
        * (MaxHoles + 2) + idx

\* found: the first accepted record of the search, 0 for None.
Found(h) ==
    IF Hits(h) = {} THEN 0
    ELSE CHOOSE i \in Hits(h) : \A j \in Hits(h) : ScanRank(h, i) <= ScanRank(h, j)

\* tol_xy <= 0: the dict best, keyed by the rounded centre.
FoundKey(h) ==
    IF \E i \in 1..Len(out) : out[i].x = h.x /\ out[i].y = h.y
    THEN CHOOSE i \in 1..Len(out) : out[i].x = h.x /\ out[i].y = h.y
    ELSE 0

\* What a kept record becomes when hole h lands on it: a larger hit
\* replaces both the diameter and the centre.
MergedKeepCentre(old, h) ==
    IF h.d > old.d THEN [x |-> old.x, y |-> old.y, d |-> h.d] ELSE old

Merged(old, h) ==
    IF h.d > old.d THEN h ELSE old

\* One iteration of the for loop over holes.
DedupeStep ==
    /\ k <= Len(holes)
    /\ LET h == holes[k]
           found == IF tol_xy <= 0 THEN FoundKey(h) ELSE Found(h)
       IN  IF found = 0
           THEN /\ out' = Append(out, h)
                /\ grid' = Append(grid, IF tol_xy <= 0 THEN <<h.x, h.y>> ELSE cell(h))
           ELSE /\ out' = [out EXCEPT ![found] = Merged(out[found], h)]
                /\ grid' = grid
    /\ k' = k + 1
    /\ UNCHANGED <<holes, tol_xy>>

DedupeIdle ==
    /\ holes = <<>>
    /\ tol_xy = 0
    /\ k = 1
    /\ out = <<>>
    /\ grid = <<>>

InitDedupeVars ==
    /\ holes \in SeqsUpTo(HoleRecs, MaxHoles)
    /\ tol_xy \in 0..2
    /\ k = 1
    /\ out = <<>>
    /\ grid = <<>>

\* ===================================================================
\* MainWindow._plan_drills_for_holes
\* ===================================================================
\* sorted(bits, key=diameter): Python's sort is stable.
InsertAsc(b, s) ==
    LET p == Cardinality({i \in 1..Len(s) : s[i].diameter <= b.diameter})
    IN  SubSeq(s, 1, p) \o <<b>> \o SubSeq(s, p + 1, Len(s))

RECURSIVE SortAsc(_)
SortAsc(s) ==
    IF s = <<>> THEN <<>>
    ELSE InsertAsc(s[Len(s)], SortAsc(SubSeq(s, 1, Len(s) - 1)))

\* sorted(bits, key=diameter, reverse=True): stable as well.
InsertDesc(b, s) ==
    LET p == Cardinality({i \in 1..Len(s) : s[i].diameter >= b.diameter})
    IN  SubSeq(s, 1, p) \o <<b>> \o SubSeq(s, p + 1, Len(s))

RECURSIVE SortDesc(_)
SortDesc(s) ==
    IF s = <<>> THEN <<>>
    ELSE InsertDesc(s[Len(s)], SortDesc(SubSeq(s, 1, Len(s) - 1)))

\* [s[i] for i in idxs], idxs taken in ascending order.
RECURSIVE Pick(_, _)
Pick(s, idxs) ==
    IF idxs = {} THEN <<>>
    ELSE LET m == CHOOSE i \in idxs : \A j \in idxs : j <= i
         IN  Append(Pick(s, idxs \ {m}), s[m])

drills == SortAsc(candidate_bits)

ds(i) == drills[i].diameter

AllIdx == 1..Len(drills)

\* The loop of best_drill_index_for from index i on: skips the indices that
\* are not allowed, remembers the last fitting one, stops at the first
\* drill over the limit. 0 stands for -1 (indices start at 1 here).
RECURSIVE BestScan(_, _, _, _)
BestScan(limit, allowed, i, best) ==
    IF i > Len(drills) THEN best
    ELSE IF i \notin allowed THEN BestScan(limit, allowed, i + 1, best)
    ELSE IF ds(i) <= limit THEN BestScan(limit, allowed, i + 1, i)
    ELSE best

best_drill_index_for(hd, allowed_idx) == BestScan(hd + tol, allowed_idx, 1, 0)

HoleIdx == 1..Len(hole_ds)

\* holes_by[di], as hole positions.
holes_by(a, di) == {n \in HoleIdx : a[n] = di}

\* A used drill is droppable when each of its holes finds a drill among the
\* other used ones.
DroppableZeroIsNone(a, u) ==
    {di \in u : \A n \in holes_by(a, di) :
        best_drill_index_for(hole_ds[n], u \ {di}) > 1}

Droppable(a, u) ==
    {di \in u : \A n \in holes_by(a, di) :
        best_drill_index_for(hole_ds[n], u \ {di}) # 0}

\* droppable.sort(key=(holes_cnt, ds)); drop = droppable[0]. The sort is
\* stable and droppable is built in ascending index order.
DropChoice(a, dr) ==
    CHOOSE i \in dr : \A j \in dr :
        \/ Cardinality(holes_by(a, i)) < Cardinality(holes_by(a, j))
        \/ /\ Cardinality(holes_by(a, i)) = Cardinality(holes_by(a, j))
           /\ \/ ds(i) < ds(j)
              \/ ds(i) = ds(j) /\ i <= j

\* The holes of the dropped drill move to their best drill among the
\* drills still in use.
ReassignedUnrestricted(a, drop, usedSet) ==
    [n \in HoleIdx |->
        IF a[n] = drop THEN best_drill_index_for(hole_ds[n], AllIdx) ELSE a[n]]

Reassigned(a, drop, usedSet) ==
    [n \in HoleIdx |->
        IF a[n] = drop THEN best_drill_index_for(hole_ds[n], usedSet) ELSE a[n]]

\* planned = [drills[i] for i in used], then sorted by diameter descending.
PlannedAscending(u) == Pick(drills, u)

Planned(u) == SortDesc(Pick(drills, u))

\* counts: holes per used drill diameter.
Counts(a, u) ==
    [d \in {ds(i) : i \in u} |-> Cardinality({n \in HoleIdx : ds(a[n]) = d})]

NoRet == [level |-> "none", planned |-> <<>>, counts |-> <<>>, msg |-> "none"]

NoAssigned == [ordered |-> <<>>, err |-> "not called"]

\* Lines 290-324: the early returns and the first assignment.
PlanStart ==
    /\ plan_pc = "start"
    /\ IF hole_ds = <<>>
       THEN /\ ret' = [level |-> "ok", planned |-> <<>>, counts |-> <<>>,
                       msg |-> "No small holes to drill."]
            /\ plan_pc' = "done"
            /\ UNCHANGED <<assign_idx, used>>
       ELSE IF candidate_bits = <<>>
       THEN /\ ret' = [level |-> "error", planned |-> <<>>, counts |-> <<>>,
                       msg |-> "No drill bits available."]
            /\ plan_pc' = "done"
            /\ UNCHANGED <<assign_idx, used>>
       ELSE LET a == [n \in HoleIdx |-> best_drill_index_for(hole_ds[n], AllIdx)]
            IN  IF \E n \in HoleIdx : a[n] = 0
                THEN /\ ret' = [level |-> "error", planned |-> <<>>, counts |-> <<>>,
                                msg |-> "Impossible: smallest drill is larger than some holes"]
                     /\ plan_pc' = "done"
                     /\ UNCHANGED <<assign_idx, used>>
                ELSE /\ assign_idx' = a
                     /\ used' = {a[n] : n \in HoleIdx}
                     /\ plan_pc' = "reduce"
                     /\ ret' = ret
    /\ UNCHANGED <<hole_ds, candidate_bits, tol, max_bits, assigned>>

\* Lines 326-360: one iteration of while len(used) > max_bits.
PlanReduce ==
    /\ plan_pc = "reduce"
    /\ Cardinality(used) > max_bits
    /\ LET droppable == Droppable(assign_idx, used)
       IN  IF droppable = {}
           THEN /\ ret' = [level |-> "error", planned |-> Pick(drills, used),
                           counts |-> <<>>,
                           msg |-> "Impossible to stay within max drills"]
                /\ plan_pc' = "done"
                /\ UNCHANGED <<assign_idx, used>>
           ELSE LET drop == DropChoice(assign_idx, droppable)
                IN  /\ used' = used \ {drop}
                    /\ assign_idx' = Reassigned(assign_idx, drop, used \ {drop})
                    /\ UNCHANGED <<ret, plan_pc>>
    /\ UNCHANGED <<hole_ds, candidate_bits, tol, max_bits, assigned>>

\* Lines 362-375: the loop is left, the plan is returned.
PlanReturn ==
    /\ plan_pc = "reduce"
    /\ Cardinality(used) <= max_bits
    /\ ret' = [level |-> "ok", planned |-> Planned(used),
               counts |-> Counts(assign_idx, used), msg |-> "Planned drills"]
    /\ plan_pc' = "done"
    /\ UNCHANGED <<hole_ds, candidate_bits, tol, max_bits, assign_idx, used, assigned>>

\* ===================================================================
\* drilling._assign_holes_to_drills
\* ===================================================================
\* drills = [b for b in drill_bits if diameter > 0], sorted ascending.
RECURSIVE PositiveBits(_)
PositiveBits(s) ==
    IF s = <<>> THEN <<>>
    ELSE LET r == PositiveBits(SubSeq(s, 1, Len(s) - 1))
         IN  IF s[Len(s)].diameter > 0 THEN Append(r, s[Len(s)]) ELSE r

\* The pick loop: the last drill, in ascending order, with d <= limit; the
\* loop stops at the first drill over the limit. 0 stands for None.
RECURSIVE PickScan(_, _, _, _)
PickScan(dr, limit, i, pick) ==
    IF i > Len(dr) THEN pick
    ELSE IF dr[i].diameter <= limit THEN PickScan(dr, limit, i + 1, i)
    ELSE pick

_assign_holes_to_drills(hs, drill_bits, t) ==
    LET dr == SortAsc(PositiveBits(drill_bits))
        pick == [n \in 1..Len(hs) |-> PickScan(dr, hs[n] + t, 1, 0)]
        usedIdx == {pick[n] : n \in 1..Len(hs)}
        pts(i) == Pick([n \in 1..Len(hs) |-> n], {n \in 1..Len(hs) : pick[n] = i})
        ordered == SortDesc(Pick(dr, usedIdx))
    IN  IF dr = <<>>
        THEN [ordered |-> <<>>, err |-> "No drill bits provided."]
        ELSE IF \E n \in 1..Len(hs) : pick[n] = 0
        THEN [ordered |-> <<>>, err |-> "Impossible: no drill fits"]
        ELSE [ordered |-> [j \in 1..Len(ordered) |->
                              [bit |-> ordered[j],
                               holes |-> pts(CHOOSE i \in usedIdx : dr[i] = ordered[j])]],
              err |-> "none"]

\* run_drill hands the planned bits to _assign_holes_to_drills.
AssignHoles ==
    /\ plan_pc = "done"
    /\ ret.level = "ok"
    /\ assigned' = _assign_holes_to_drills(hole_ds, ret.planned, tol)
    /\ plan_pc' = "assigned"
    /\ UNCHANGED <<hole_ds, candidate_bits, tol, max_bits, assign_idx, used, ret>>

\* Candidate lists as both callers build them: sorted by diameter, positive
\* diameters, equal diameters possible (manual selection).
CandidateLists ==
    UNION {{[i \in 1..m |-> [name |-> i, diameter |-> f[i]]] :
                f \in {g \in [1..m -> 1..MaxD] : \A i \in 1..(m - 1) : g[i] <= g[i + 1]}} :
           m \in 0..MaxCand}

PlanIdle ==
    /\ hole_ds = <<>>
    /\ candidate_bits = <<>>
    /\ tol = 0
    /\ max_bits = 0
    /\ plan_pc = "idle"
    /\ assign_idx = <<>>
    /\ used = {}
    /\ ret = NoRet
    /\ assigned = NoAssigned

InitPlanVars ==
    /\ hole_ds \in SeqsUpTo(1..MaxD, MaxPlanHoles)
    /\ candidate_bits \in CandidateLists
    /\ tol \in 0..1
    /\ max_bits \in 0..MaxCand
    /\ plan_pc = "start"
    /\ assign_idx = <<>>
    /\ used = {}
    /\ ret = NoRet
    /\ assigned = NoAssigned

\* ===================================================================
\* MainWindow.run_job and the G-code files the operations write
\* ===================================================================

\* The operations in the order run_job's loop visits them.
OPS == <<"copper_isolation", "soldermask_clear", "drilling", "board_outline", "silkscreen">>

OpKeys == {OPS[i] : i \in 1..Len(OPS)}

\* The keys of the layer list in the order _refresh_layer_list adds the
\* items; the last one is a preview-only layer.
LayerOrder ==
    <<"copper_isolation", "drilling", "board_outline", "silkscreen", "soldermask_clear",
      "top_mask_preview">>

\* The items _refresh_layer_list adds checked.
DefaultChecked == {"copper_isolation", "drilling", "board_outline", "silkscreen"}

\* The file each operation writes in one-file-per-operation mode.
OpFile(op) ==
    CASE op = "copper_isolation" -> "top_copper_isolation.nc"
      [] op = "soldermask_clear" -> "soldermask_clear.nc"
      [] op = "drilling" -> "drill.nc"
      [] op = "board_outline" -> "board_outline.nc"
      [] op = "silkscreen" -> "silkscreen.nc"

FileNames == {"all.nc"} \cup {OpFile(op) : op \in OpKeys}

\* out = out_nc("all.nc") if combined else out_nc(<the operation's file>)
OutFile(op) == IF combined THEN "all.nc" ELSE OpFile(op)

\* One line of a file: the command, and who wrote it ("header", "probe" for
\* the user's probe lines, an operation key, "job" for run_job's final M2,
\* "old" for content found in the directory).  Coordinates, depths and feeds
\* are left out of the commands.
Line(src, cmd) == [src |-> src, cmd |-> cmd]

Lines(src, cmds) == [i \in 1..Len(cmds) |-> Line(src, cmds[i])]

NoFile == [exists |-> FALSE, lines |-> <<>>]

\* open(fn, "w") and the writes that follow
OpenWrite(fs, fn, new) == [fs EXCEPT ![fn] = [exists |-> TRUE, lines |-> new]]

\* open(fn, "a") and the writes that follow
OpenAppend(fs, fn, new) == [fs EXCEPT ![fn] = [exists |-> TRUE, lines |-> @.lines \o new]]

write_header(job_name) ==
    Lines("header", <<"; ----", "; CNC_PCB job">>
                    \o (IF job_name # "" THEN <<"; Job">> ELSE <<>>)
                    \o <<"; Units: mm", "; ----",
                         "G21", "G90", "G17", "G94", "G54", "G92.1", "G0 Ztravel">>)
    \o (IF probe_on_start
        THEN IF probe_gcode # <<>>
             THEN Lines("header", <<"; Probe on start">>)
                  \o Lines("probe", probe_gcode)
                  \o Lines("header", <<"G0 Ztravel">>)
             ELSE Lines("header", <<"; Probe requested", "M0">>)
        ELSE <<>>)

ensure_header(fs, fn) ==
    IF ~fs[fn].exists \/ fs[fn].lines = <<>>
    THEN OpenWrite(fs, fn, write_header(""))
    ELSE fs

ToolchangeSpindleFirst(src) ==
    Lines(src, <<"G0 Ztc", IF rpm > 0 THEN "S M3" ELSE "M3", "G0 XYpark", "; message", "M0",
                 "M5">>
               \o (IF spindle_warmup_s > 0 THEN <<"G4 P">> ELSE <<>>)
               \o <<"G0 Ztravel">>)

toolchange_sequence(src) ==
    Lines(src, <<"G0 Ztc", "M5", "G0 XYpark", "; message", "M0",
                 IF rpm > 0 THEN "S M3" ELSE "M3">>
               \o (IF spindle_warmup_s > 0 THEN <<"G4 P">> ELSE <<>>)
               \o <<"G0 Ztravel">>)

EndSequenceAlwaysEnds(src, end_program) ==
    Lines(src, <<"G0 Ztravel", "M5", "G0 XYpark", "M2">>)

end_sequence(src, end_program) ==
    Lines(src, <<"G0 Ztravel", "M5", "G0 XYpark">> \o (IF end_program THEN <<"M2">> ELSE <<>>))

CutPathPlungeFirst(src) == Lines(src, <<"G0 Zsafe", "G1 Z", "G0 XY", "G1 XY", "G0 Zsafe">>)

\* One path milled without ramp: rapid to safe Z and to the start, plunge,
\* feed along the path, retract.
CutPath(src) == Lines(src, <<"G0 Zsafe", "G0 XY", "G1 Z", "G1 XY", "G0 Zsafe">>)

\* One drilled hole.
DrillHit(src) == Lines(src, <<"G0 Zsafe", "G0 XY", "G1 Z", "G0 Zsafe">>)

OpReturned(fs) == [files |-> fs, raised |-> FALSE]

OpRaised(fs) == [files |-> fs, raised |-> TRUE]

\* The shape shared by run_copper, run_mask and run_silk: load the top
\* copper (raises when the file is missing), return before touching the file
\* when there is nothing to cut, else header if needed and one section.
SimpleOp(op, fs) ==
    IF ~inputs.copper_ok THEN OpRaised(fs)
    ELSE IF inputs.geom[op] = "none" THEN OpReturned(fs)
    ELSE OpReturned(OpenAppend(ensure_header(fs, OutFile(op)), OutFile(op),
                              toolchange_sequence(op) \o CutPath(op)
                              \o end_sequence(op, ~combined)))

run_copper(fs) == SimpleOp("copper_isolation", fs)

run_mask(fs) == SimpleOp("soldermask_clear", fs)

\* run_silk also parses the silkscreen Gerber, after the copper and before
\* it touches the output; parse_gerber_full raises when the file is gone.
run_silk(fs) ==
    IF inputs.copper_ok /\ "silk" \in inputs.missing THEN OpRaised(fs)
    ELSE SimpleOp("silkscreen", fs)

\* load_drills_and_slots: a missing -PTH.drl or -NPTH.drl is warned about
\* and adds nothing; the other file's hits remain.
DrillsLoaded == ~({"pth", "npth"} \subseteq inputs.missing)

\* inputs.geom.drilling: "none" no small hole; "assign_err" the planned
\* drills do not fit a hole; "one"/"two" planned drills used; "legacy" no
\* planned drills (one group by diameter).
run_drill(fs) ==
    LET op == "drilling"
        g == inputs.geom[op]
        hdr == ensure_header(fs, OutFile(op))
        tool == toolchange_sequence(op) \o DrillHit(op)
    IN  IF ~inputs.copper_ok THEN OpRaised(fs)
        ELSE IF g = "none" \/ ~DrillsLoaded THEN OpReturned(fs)
        ELSE IF g = "assign_err" THEN OpReturned(hdr)
        ELSE OpReturned(OpenAppend(hdr, OutFile(op),
                                  (IF g = "two" THEN tool ELSE <<>>) \o tool
                                  \o end_sequence(op, ~combined)))

\* inputs.geom.board_outline: "no_coords" the buffered outline is empty;
\* "cut" it is walked.  Slots, when the board has any, are milled first.
\* load_copper and load_tracks come first and raise on a missing file.
run_outline(fs) ==
    LET op == "board_outline"
        hdr == ensure_header(fs, OutFile(op))
        slots == IF inputs.slot_ws # {} /\ DrillsLoaded THEN CutPath(op) ELSE <<>>
        walk == IF inputs.geom[op] = "no_coords" THEN <<>>
                ELSE Lines(op, <<"G0 Zsafe", "G0 XY", "G1 Z", "G1 XY", "G0 Zsafe">>)
    IN  IF ~inputs.copper_ok \/ "outline" \in inputs.missing THEN OpRaised(fs)
        ELSE OpReturned(OpenAppend(hdr, OutFile(op),
                                  toolchange_sequence(op) \o slots \o walk
                                  \o end_sequence(op, ~combined)))

RunOp(op, fs) ==
    CASE op = "copper_isolation" -> run_copper(fs)
      [] op = "soldermask_clear" -> run_mask(fs)
      [] op = "drilling" -> run_drill(fs)
      [] op = "board_outline" -> run_outline(fs)
      [] op = "silkscreen" -> run_silk(fs)

\* _update_selected_ops: the checked keys in layer-list order.
SelectedOps(chk) ==
    LET IsChecked(key) == key \in chk
    IN  SelectSeq(LayerOrder, IsChecked)

\* ops_to_run = [k for k in s.selected_ops if k in runnable]
OpsToRun(sel) ==
    LET Runnable(key) == key \in OpKeys
    IN  SelectSeq(sel, Runnable)

RunOrderAsSelected(ops_to_run) == ops_to_run

\* for op_key, func in OPS: if op_key not in ops_to_run: continue
RunOrder(ops_to_run) ==
    LET Selected(op) == \E i \in 1..Len(ops_to_run) : ops_to_run[i] = op
    IN  SelectSeq(OPS, Selected)

\* The body of run_job's loop for order[i..]: a missing bit returns, an
\* exception in an operation ends the job, else the next operation runs on
\* the files the previous one left.
RECURSIVE RunOps(_, _, _, _)
RunOps(order, i, fs, log) ==
    IF i > Len(order) THEN [files |-> fs, ran |-> log, result |-> "done"]
    ELSE IF ~inputs.has_bits THEN [files |-> fs, ran |-> log, result |-> "missing_bit"]
    ELSE LET r == RunOp(order[i], fs)
         IN  IF r.raised
             THEN [files |-> r.files, ran |-> Append(log, order[i]), result |-> "failed"]
             ELSE RunOps(order, i + 1, r.files, Append(log, order[i]))

\* _preflight_compute: the planner's level, overridden when the router is
\* wider than the narrowest slot; inputs.plan = "raises" when it raises.
_preflight_compute(inp) ==
    IF inp.router_d > 0 /\ inp.slot_ws # {} /\ \E w \in inp.slot_ws : inp.router_d > w
    THEN "error"
    ELSE inp.plan

\* _refresh_preflight_ui: the level it stores.
RefreshedLevel(inp) == IF inp.plan = "raises" THEN "warn" ELSE _preflight_compute(inp)

PreflightDialogAlwaysTrue(level) == TRUE

\* _preflight_dialog, after its refresh.
_preflight_dialog(level) == level # "error"

\* ---- the boards, bit libraries and directories jobs are run on
AllCut ==
    [copper_isolation |-> "cut", soldermask_clear |-> "cut", drilling |-> "two",
     board_outline |-> "cut", silkscreen |-> "cut"]

GeomChoices ==
    [copper_isolation : {"none", "cut"}, soldermask_clear : {"none", "cut"},
     drilling : {"none", "assign_err", "two"},
     board_outline : {"no_coords", "cut"}, silkscreen : {"none", "cut"}]

Layers(n) == {LayerOrder[i] : i \in 1..n}

Board(layers, copper_ok, has_bits, plan, router_d, slot_ws, geom, dir) ==
    [layers |-> layers, copper_ok |-> copper_ok, has_bits |-> has_bits, plan |-> plan,
     router_d |-> router_d, slot_ws |-> slot_ws, geom |-> geom, dir |-> dir, missing |-> {}]

\* The board b with the input files m ("outline", "silk", "pth", "npth")
\* no longer in the directory when the job runs.
WithMissing(b, m) == [b EXCEPT !.missing = m]

MissingChoices == {{"outline"}, {"silk"}, {"pth"}, {"npth"}, {"pth", "npth"}}

InputChoices ==
    UNION {
        {Board(Layers(5), TRUE, TRUE, "ok", 2, {3}, g, dir) : g \in GeomChoices}
        \cup {Board(Layers(6), TRUE, TRUE, "ok", 2, {3}, [AllCut EXCEPT !.drilling = "one"], dir),
              Board(Layers(6), TRUE, TRUE, "error", 2, {3}, AllCut, dir),
              Board(Layers(6), TRUE, TRUE, "ok", 2, {1, 3}, AllCut, dir),
              Board(Layers(6), TRUE, TRUE, "ok", 0, {1}, AllCut, dir),
              Board(Layers(6), TRUE, TRUE, "ok", 2, {}, AllCut, dir),
              Board(Layers(6), TRUE, TRUE, "raises", 2, {3},
                    [AllCut EXCEPT !.drilling = "legacy"], dir),
              Board(Layers(6) \ {"copper_isolation"}, FALSE, TRUE, "ok", 2, {3}, AllCut, dir),
              Board(Layers(6), TRUE, FALSE, "ok", 0, {3},
                    [AllCut EXCEPT !.drilling = "none"], dir)}
        : dir \in {"fresh", "stale"}}
    \cup {WithMissing(Board(Layers(5), TRUE, TRUE, "ok", 2, {3}, AllCut, "fresh"), m) :
            m \in MissingChoices}

\* What an earlier job that failed while cutting left in a file.
StaleLines ==
    Lines("old", <<"; CNC_PCB job", "G21", "G90", "G0 Ztravel", "G0 Ztc", "M5", "G0 XYpark",
                   "; message", "M0", "M3", "G0 Ztravel", "G0 Zsafe", "G0 XY", "G1 Z">>)

\* The .nc files of the gerber directory when the board is picked.
DirFiles(dir) ==
    [f \in FileNames |->
        IF dir = "fresh" \/ f \in {"soldermask_clear.nc", "silkscreen.nc"} THEN NoFile
        ELSE IF f = "drill.nc" THEN [exists |-> TRUE, lines |-> <<>>]
        ELSE [exists |-> TRUE, lines |-> StaleLines]]

NoInputs == Board({}, FALSE, FALSE, "ok", 0, {}, AllCut, "fresh")

\* ---- handlers

\* FilesTab.pick_gerber_or_zip, _refresh_layer_list and the _on_files_changed
\* it triggers.  One board is picked per session.
PickBoard ==
    /\ prefix = ""
    /\ \E inp \in InputChoices :
        /\ inputs' = inp
        /\ files' = DirFiles(inp.dir)
        /\ checked' = DefaultChecked \cap inp.layers
        /\ selected_ops' = SelectedOps(DefaultChecked \cap inp.layers)
        /\ preflight_level' = RefreshedLevel(inp)
    /\ prefix' = "board"
    /\ result' = "none"
    /\ UNCHANGED <<combined, probe_on_start, probe_gcode, rpm, spindle_warmup_s, saves, jobs, ran>>

\* A click on a layer-list item: on_layer_toggle, _on_files_changed.
ToggleLayer ==
    /\ prefix # ""
    /\ jobs = 0
    /\ \E key \in inputs.layers :
        LET chk == IF key \in checked THEN checked \ {key} ELSE checked \cup {key}
        IN  /\ checked' = chk
            /\ selected_ops' = SelectedOps(chk)
    /\ preflight_level' = RefreshedLevel(inputs)
    /\ result' = "none"
    /\ UNCHANGED <<prefix, inputs, combined, probe_on_start, probe_gcode, rpm, spindle_warmup_s,
                   saves, files, jobs, ran>>

\* FilesTab.set_combined
SetCombined ==
    /\ jobs = 0
    /\ combined' = ~combined
    /\ result' = "none"
    /\ UNCHANGED <<prefix, inputs, checked, selected_ops, probe_on_start, probe_gcode, rpm,
                   spindle_warmup_s, preflight_level, saves, files, jobs, ran>>

\* run_job past the preflight dialog: settings saved, combined file opened
\* "w" with its header, the operations, the final M2, settings saved again.
StartedJob(ops_to_run) ==
    LET start == IF combined THEN OpenWrite(files, "all.nc", write_header("combined"))
                 ELSE files
        r == RunOps(RunOrder(ops_to_run), 1, start, <<>>)
    IN  /\ files' = IF r.result = "done" /\ combined /\ r.files["all.nc"].exists
                    THEN OpenAppend(r.files, "all.nc", Lines("job", <<"M2">>))
                    ELSE r.files
        /\ saves' = saves + (IF r.result = "done" THEN 2 ELSE 1)
        /\ jobs' = jobs + 1
        /\ result' = r.result
        /\ ran' = r.ran

RunJob ==
    /\ jobs < MaxJobs
    /\ UNCHANGED <<prefix, inputs, checked, combined, probe_on_start, probe_gcode, rpm,
                   spindle_warmup_s>>
    /\ IF prefix = ""
       THEN /\ result' = "no_board"
            /\ UNCHANGED <<selected_ops, preflight_level, saves, files, jobs, ran>>
       ELSE /\ selected_ops' = SelectedOps(checked)
            /\ IF OpsToRun(SelectedOps(checked)) = <<>>
               THEN /\ result' = "nothing_selected"
                    /\ UNCHANGED <<preflight_level, saves, files, jobs, ran>>
               ELSE /\ preflight_level' = RefreshedLevel(inputs)
                    /\ IF _preflight_dialog(RefreshedLevel(inputs))
                       THEN StartedJob(OpsToRun(SelectedOps(checked)))
                       ELSE /\ result' = "refused"
                            /\ UNCHANGED <<saves, files, jobs, ran>>

JobIdle ==
    /\ prefix = ""
    /\ inputs = NoInputs
    /\ checked = {}
    /\ selected_ops = <<>>
    /\ combined = TRUE
    /\ probe_on_start = FALSE
    /\ probe_gcode = <<>>
    /\ rpm = 0
    /\ spindle_warmup_s = 0
    /\ preflight_level = "info"
    /\ saves = 0
    /\ files = [f \in FileNames |-> NoFile]
    /\ jobs = 0
    /\ result = "none"
    /\ ran = <<>>

\* The probe settings a session starts with: off, on without G-code, on with
\* a probe routine that feeds back up after touching.
ProbeChoices ==
    {[on |-> FALSE, gcode |-> <<>>], [on |-> TRUE, gcode |-> <<>>],
     [on |-> TRUE, gcode |-> <<"G38.2 Z-10 F50", "G92 Z0", "G1 Z2 F100">>]}

\* The spindle settings a session starts with: bits without rpm and no
\* warm-up, bits with rpm and a warm-up dwell.
SpindleChoices == {[rpm |-> 0, warm |-> 0], [rpm |-> 12000, warm |-> 1]}

\* The window after construction: no board, the job settings and the bit
\* library as loaded from their files.
InitJobVars ==
    /\ prefix = ""
    /\ inputs = NoInputs
    /\ checked = {}
    /\ selected_ops = <<>>
    /\ combined = TRUE
    /\ \E p \in ProbeChoices : probe_on_start = p.on /\ probe_gcode = p.gcode
    /\ \E b \in SpindleChoices : rpm = b.rpm /\ spindle_warmup_s = b.warm
    /\ preflight_level = "info"
    /\ saves = 0
    /\ files = [f \in FileNames |-> NoFile]
    /\ jobs = 0
    /\ result = "none"
    /\ ran = <<>>

\* ===================================================================
\* gerber_parser.parse_gerber_full (polarity, objects) and
\* _compose_dark_clear.  An object's geometry is the set of cells of a
\* small grid it covers.
\* ===================================================================
Cells == 1..NCells

\* What a line of the file amounts to: a polarity command, or an object
\* (flash, draw or region) with non-empty geometry.
GerberCmds ==
    {[op |-> "LPD", cells |-> {}], [op |-> "LPC", cells |-> {}]}
    \cup {[op |-> "obj", cells |-> S] : S \in (SUBSET Cells) \ {{}}}

\* unary_union of a list of geometries
unary_union(geoms) == UNION {geoms[i] : i \in 1..Len(geoms)}

\* One iteration of the loop over the lines: %LPD / %LPC set the polarity,
\* an object is appended to dark_geoms or to clear_geoms.
GerberLine ==
    /\ line_no < Len(glines)
    /\ line_no' = line_no + 1
    /\ LET l == glines[line_no + 1]
       IN  CASE l.op = "LPD" -> polarity' = "D" /\ UNCHANGED <<dark_geoms, clear_geoms>>
             [] l.op = "LPC" -> polarity' = "C" /\ UNCHANGED <<dark_geoms, clear_geoms>>
             [] l.op = "obj" ->
                  /\ IF polarity = "D"
                     THEN dark_geoms' = Append(dark_geoms, l.cells) /\ UNCHANGED clear_geoms
                     ELSE clear_geoms' = Append(clear_geoms, l.cells) /\ UNCHANGED dark_geoms
                  /\ UNCHANGED polarity
    /\ UNCHANGED glines

\* _compose_dark_clear(dark_geoms, clear_geoms): what load_copper returns.
_compose_dark_clear(dark, clear) ==
    IF clear = <<>> THEN unary_union(dark)
    ELSE unary_union(dark) \ unary_union(clear)

GerberIdle ==
    /\ glines = <<>>
    /\ line_no = 0
    /\ polarity = "D"
    /\ dark_geoms = <<>>
    /\ clear_geoms = <<>>

InitGerberVars ==
    /\ glines \in SeqsUpTo(GerberCmds, MaxCmds)
    /\ line_no = 0
    /\ polarity = "D"
    /\ dark_geoms = <<>>
    /\ clear_geoms = <<>>

\* ===================================================================
\* The warnings of parse_excellon_file and parse_gerber_full.  A parse is
\* reduced to the warning conditions its input holds; each condition is
\* handled by the _warn call (or raise) the code has for it.
\* ===================================================================

\* Conditions met while reading the lines, then the checks after the loop.
LineConds(p) ==
    IF p = "excellon" THEN {"tool_selected_undefined", "xy_undefined_tool", "bad_xy"}
    ELSE {"undefined_aperture", "bad_xy"}

EndConds(p) ==
    IF p = "excellon" THEN <<"no_units", "no_tool_defs", "extents">>
    ELSE <<"no_units", "no_fs", "no_apertures", "extents">>

\* The strict argument each site passes to _warn: "strict" the caller's
\* flag, "False" the literal False; "raise" where the code raises
\* FileNotFoundError without a warning.
WarnArg(p, c) ==
    IF p = "excellon"
    THEN CASE c = "file_not_found" -> "False"
           [] c = "tool_selected_undefined" -> "False"
           [] c = "xy_undefined_tool" -> "False"
           [] c = "bad_xy" -> "strict"
           [] c \in {"no_units", "no_tool_defs", "extents"} -> "False"
    ELSE CASE c = "file_not_found" -> "raise"
           [] c = "undefined_aperture" -> "strict"
           [] c = "bad_xy" -> "strict"
           [] c \in {"no_units", "no_fs", "no_apertures", "extents"} -> "False"

\* The condition lists an input can hold: a missing file alone, or line
\* conditions followed by end checks in the order the code makes them.
CondLists(p) ==
    LET endSets == SUBSET {i : i \in 1..Len(EndConds(p))}
        IsPicked(S) == LET Test(c) == \E i \in S : EndConds(p)[i] = c
                       IN  SelectSeq(EndConds(p), Test)
    IN  {<<"file_not_found">>}
        \cup {l \o IsPicked(S) : l \in SeqsUpTo(LineConds(p), MaxConds), S \in endSets}

\* _warn(lg, msg, strict=...) for the next condition, and what follows it.
ParseCond ==
    /\ outcome = "parsing"
    /\ ci < Len(conds)
    /\ ci' = ci + 1
    /\ LET c == conds[ci + 1]
           arg == WarnArg(parser, c)
       IN  IF arg = "raise"
           THEN outcome' = "FileNotFoundError" /\ UNCHANGED warnings
           ELSE /\ warnings' = Append(warnings, c)
                /\ outcome' = IF arg = "strict" /\ strict THEN "ParseError"
                              ELSE IF c = "file_not_found" THEN "returned"
                              ELSE "parsing"
    /\ UNCHANGED <<parser, strict, conds>>

\* return ex / return GerberFull(...)
ParseReturn ==
    /\ outcome = "parsing"
    /\ ci = Len(conds)
    /\ outcome' = "returned"
    /\ UNCHANGED <<parser, strict, conds, ci, warnings>>

StrictIdle ==
    /\ parser = "none"
    /\ strict = FALSE
    /\ conds = <<>>
    /\ ci = 0
    /\ warnings = <<>>
    /\ outcome = "idle"

InitStrictVars ==
    /\ parser \in {"excellon", "gerber"}
    /\ strict \in BOOLEAN
    /\ conds \in CondLists(parser)
    /\ ci = 0
    /\ warnings = <<>>
    /\ outcome = "parsing"

\* ===================================================================
\* board_outline.run_outline: tab placement and the walk along the outline.
\* Lengths are whole numbers of 0.1 mm; the perimeter is a multiple of
\* 0.5 mm, so that length * 0.20 is a whole number too.
\* ===================================================================

\* step = 0.5
step == 5

\* tab_half = tab_width / 2.0, tab_width = 1.0
tab_half == 5

\* tab_spacing = length * 0.20
tab_spacing == length \div 5

\* def is_in_tab(dist)
is_in_tab(a) == \E i \in 1..Len(tab_positions) : Abs(a - tab_positions[i]) <= tab_half

Min(a, b) == IF a <= b THEN a ELSE b

\* One piece of the outline, from arc length from to arc length to, cut at
\* depth "tab" (pcb_thickness * 0.75) or "full" (pcb_thickness).
Cut(from, to, depth) == [from |-> from, to |-> to, depth |-> depth]

DepthAt(a) == IF is_in_tab(a) THEN "tab" ELSE "full"

\* while d < length: tab_positions.append(d); d += tab_spacing
TabStep ==
    /\ walk_pc = "tabs"
    /\ tabs_enabled /\ length > 0
    /\ tab_d < length
    /\ tab_positions' = Append(tab_positions, tab_d)
    /\ tab_d' = tab_d + tab_spacing
    /\ UNCHANGED <<tabs_enabled, length, ramp_len, dist, cuts, walk_pc, seg_end, tool_moves>>

\* The tool stands at the target of its last move, at the start before any.
ToolAt == IF tool_moves = <<>> THEN 0 ELSE tool_moves[Len(tool_moves)].to

\* The tab loop is over (or skipped); the walk starts: without ramp at
\* dist = 0, with ramp after a first move that descends to
\* is_in_tab(0.0)'s depth over ramp_len of the first segment, followed by a
\* move at that depth to the end of the segment when the ramp ends short of it.
WalkStart ==
    /\ walk_pc = "tabs"
    /\ ~(tabs_enabled /\ length > 0 /\ tab_d < length)
    /\ walk_pc' = "walk"
    /\ IF ramp_len > 0
       THEN /\ dist' = ramp_len
            /\ cuts' = <<Cut(0, ramp_len, "ramp")>>
            /\ tool_moves' = <<Cut(0, ramp_len, "ramp")>>
                               \o (IF seg_end # ramp_len
                                   THEN <<Cut(ramp_len, seg_end, DepthAt(0))>>
                                   ELSE <<>>)
       ELSE /\ dist' = 0
            /\ cuts' = <<>>
            /\ tool_moves' = <<>>
    /\ UNCHANGED <<tabs_enabled, length, ramp_len, tab_positions, tab_d, seg_end>>

\* while dist < length: one piece of at most step, at the depth found at its
\* start.
WalkStep ==
    /\ walk_pc = "walk"
    /\ dist < length
    /\ cuts' = Append(cuts, Cut(dist, Min(dist + step, length), DepthAt(dist)))
    /\ tool_moves' = Append(tool_moves, Cut(ToolAt, Min(dist + step, length), DepthAt(dist)))
    /\ dist' = Min(dist + step, length)
    /\ UNCHANGED <<tabs_enabled, length, ramp_len, tab_positions, tab_d, walk_pc, seg_end>>

WalkEnd ==
    /\ walk_pc = "walk"
    /\ dist >= length
    /\ walk_pc' = "done"
    /\ UNCHANGED <<tabs_enabled, length, ramp_len, tab_positions, tab_d, dist, cuts, seg_end,
                   tool_moves>>

TabIdle ==
    /\ tabs_enabled = FALSE
    /\ length = 0
    /\ ramp_len = 0
    /\ tab_positions = <<>>
    /\ tab_d = 0
    /\ dist = 0
    /\ cuts = <<>>
    /\ walk_pc = "idle"
    /\ seg_end = 0
    /\ tool_moves = <<>>

InitTabVars ==
    /\ tabs_enabled \in BOOLEAN
    /\ length \in {5 * n : n \in 1..MaxSpacing}
    /\ ramp_len \in {0, 2}
    /\ tab_positions = <<>>
    /\ tab_d = length \div 5
    /\ dist = 0
    /\ cuts = <<>>
    /\ walk_pc = "tabs"
    /\ seg_end \in IF ramp_len > 0
                  THEN {ramp_len} \cup {5 * n : n \in 1..(length \div 5)}
                  ELSE {0}
    /\ tool_moves = <<>>

\* ===================================================================
\* geom_utils.order_lines_nearest.  The points lie on one axis, so that a
\* point is its abscissa and the distance between two points is the
\* absolute difference.
\* ===================================================================

Pts == 0..MaxPt

\* The polylines an input may hold: the empty one, every two-point one,
\* and the three-point ones running in one direction.
Polylines ==
    LET OneWay(p) == (p[1] < p[2] /\ p[2] < p[3]) \/ (p[1] > p[2] /\ p[2] > p[3])
    IN  {<<>>}
        \cup {<<a, b>> : a \in Pts, b \in Pts}
        \cup {p \in {<<a, b, c>> : a \in Pts, b \in Pts, c \in Pts} : OneWay(p)}

_dist2(a, b) == (a - b) * (a - b)

\* list(pick.coords)[::-1]
Reverse(p) == [i \in 1..Len(p) |-> p[Len(p) + 1 - i]]

\* [ls for ls in lines if ls is not None and not ls.is_empty and len(ls.coords) >= 2]
ValidLines(ls) ==
    LET Keep(p) == Len(p) >= 2
    IN  SelectSeq(ls, Keep)

\* The scan of one pass over remaining[i..]: b holds best_i, best_flip and
\* best_d2 (-1 for infinity).
RECURSIVE NearestScan(_, _, _, _, _)
NearestScan(rem, c, rev, i, b) ==
    IF i > Len(rem) THEN b
    ELSE LET d2s == _dist2(c, rem[i][1])
             d2e == _dist2(c, rem[i][Len(rem[i])])
             b1 == IF b.d2 = -1 \/ d2s < b.d2
                   THEN [i |-> i, flip |-> FALSE, d2 |-> d2s]
                   ELSE b
             b2 == IF rev /\ (b1.d2 = -1 \/ d2e < b1.d2)
                   THEN [i |-> i, flip |-> TRUE, d2 |-> d2e]
                   ELSE b1
         IN  NearestScan(rem, c, rev, i + 1, b2)

PopKeepsAll(s, i) == s

\* remaining.pop(best_i): the list without its i-th element
Pop(s, i) == [j \in 1..(Len(s) - 1) |-> IF j < i THEN s[j] ELSE s[j + 1]]

FlipAlways(p, b) == Reverse(p)

\* if best_flip: pick = LineString(list(pick.coords)[::-1])
Picked(p, b) == IF b.flip THEN Reverse(p) ELSE p

\* One pass of `while remaining`.
OrderStep ==
    /\ order_pc = "loop"
    /\ remaining # <<>>
    /\ LET b == NearestScan(remaining, cur, allow_reverse, 1,
                            [i |-> 1, flip |-> FALSE, d2 |-> -1])
           p == Picked(remaining[b.i], b)
       IN  /\ remaining' = Pop(remaining, b.i)
           /\ placed' = Append(placed, p)
           /\ cur' = p[Len(p)]
    /\ UNCHANGED <<lines, start_xy, allow_reverse, order_pc>>

\* return ordered
OrderReturn ==
    /\ order_pc = "loop"
    /\ remaining = <<>>
    /\ order_pc' = "done"
    /\ UNCHANGED <<lines, start_xy, allow_reverse, remaining, placed, cur>>

OrderIdle ==
    /\ lines = <<>>
    /\ start_xy = 0
    /\ allow_reverse = FALSE
    /\ remaining = <<>>
    /\ placed = <<>>
    /\ cur = 0
    /\ order_pc = "idle"

InitOrderVars ==
    /\ lines \in SeqsUpTo(Polylines, MaxLines)
    /\ start_xy \in Pts
    /\ allow_reverse \in BOOLEAN
    /\ remaining = ValidLines(lines)
    /\ placed = <<>>
    /\ cur = start_xy
    /\ order_pc = "loop"

\* ===================================================================
\* The fixed-width coordinate decoders: gerber_parser._parse_rs274x_coord
\* and ExcellonFile._parse_fixed, on tokens without a decimal point.  A
\* string of digits is the sequence of its digits; a decoded number is
\* kept as the decimal it is read from, num / 10^exp, with its sign.
\* ===================================================================

Digits == 0..MaxDigit

\* What the regular expressions X(-?[\d\.]+), Y(-?[\d\.]+) hand over,
\* decimal points left out: an optional "-" and one or more digits.
Tokens ==
    [neg : BOOLEAN, digits : SeqsUpTo(Digits, MaxTok) \ {<<>>}]

RECURSIVE Pow10(_)
Pow10(n) == IF n <= 0 THEN 1 ELSE 10 * Pow10(n - 1)

\* int(s) for a string of digits
RECURSIVE int(_)
int(s) == IF s = <<>> THEN 0 ELSE 10 * int(SubSeq(s, 1, Len(s) - 1)) + s[Len(s)]

RjustAppends(s, n) == s \o [i \in 1..(n - Len(s)) |-> 0]

\* s.rjust(n, "0")
rjust(s, n) == [i \in 1..(n - Len(s)) |-> 0] \o s

\* s.ljust(n, "0")
ljust(s, n) == s \o [i \in 1..(n - Len(s)) |-> 0]

\* s[-n:] for 0 < n < len(s)
KeepRight(s, n) == SubSeq(s, Len(s) - n + 1, Len(s))

Max(a, b) == IF a >= b THEN a ELSE b

Decimal(neg, num, exp) == [neg |-> neg, num |-> num, exp |-> exp]

NoVal == [neg |-> FALSE, num |-> -1, exp |-> 0]

\* gerber_parser._parse_rs274x_coord, past the test for a decimal point.
_parse_rs274x_coord(tok, id, dd, zm) ==
    LET tok_digits == tok.digits
        total == IF id + dd <= 0 THEN Max(1, Len(tok_digits)) ELSE id + dd
        cut == IF Len(tok_digits) > total THEN KeepRight(tok_digits, total) ELSE tok_digits
        padded == IF Len(cut) < total
                  THEN IF zm = "L" THEN rjust(cut, total) ELSE ljust(cut, total)
                  ELSE cut
    IN  IF dd <= 0 THEN Decimal(tok.neg, int(padded), 0)
        ELSE LET ip == IF id > 0 THEN SubSeq(padded, 1, id) ELSE <<0>>
                 fp == IF id > 0 THEN SubSeq(padded, id + 1, Len(padded)) ELSE padded
             IN  Decimal(tok.neg, int(ip) * Pow10(Len(fp)) + int(fp), Len(fp))

\* ExcellonFile.set_zero_suppression: "trailing" if the word starts with t
set_zero_suppression(z) == IF z = "T" THEN "trailing" ELSE "leading"

\* ExcellonFile._parse_fixed, past the test for a decimal point; fmt is
\* self.format and zs self.zero_suppression.
_parse_fixed(tok, fmt, zs) ==
    LET s == tok.digits
        total == IF fmt[1] + fmt[2] <= 0 THEN Max(1, Len(s)) ELSE fmt[1] + fmt[2]
        cut == IF Len(s) > total THEN KeepRight(s, total) ELSE s
        padded == IF Len(cut) < total
                  THEN IF zs = "leading" THEN rjust(cut, total) ELSE ljust(cut, total)
                  ELSE cut
    IN  IF fmt[2] <= 0 THEN Decimal(tok.neg, int(padded), 0)
        ELSE LET ip == IF fmt[1] > 0 THEN SubSeq(padded, 1, fmt[1]) ELSE <<0>>
                 fp == IF fmt[1] > 0 THEN SubSeq(padded, fmt[1] + 1, Len(padded)) ELSE padded
             IN  Decimal(tok.neg, int(ip) * Pow10(Len(fp)) + int(fp), Len(fp))

DecodeGerber ==
    /\ gerber_val = NoVal
    /\ gerber_val' = _parse_rs274x_coord(token, int_d, dec_d, zero_mode)
    /\ UNCHANGED <<token, int_d, dec_d, zero_mode, excellon_val>>

DecodeExcellon ==
    /\ excellon_val = NoVal
    /\ excellon_val' = _parse_fixed(token, <<int_d, dec_d>>, set_zero_suppression(zero_mode))
    /\ UNCHANGED <<token, int_d, dec_d, zero_mode, gerber_val>>

CoordIdle ==
    /\ token = [neg |-> FALSE, digits |-> <<>>]
    /\ int_d = 0
    /\ dec_d = 0
    /\ zero_mode = "L"
    /\ gerber_val = NoVal
    /\ excellon_val = NoVal

InitCoordVars ==
    /\ token \in Tokens
    /\ int_d \in 0..MaxFmt
    /\ dec_d \in 0..MaxFmt
    /\ zero_mode \in {"L", "T"}
    /\ gerber_val = NoVal
    /\ excellon_val = NoVal

\* ===================================================================
\* excellon_parser.parse_excellon_file: hits and routed slots.  The header
\* defines T1 (diameter 1) and may define T2 (diameter 2); the body holds
\* M15, M16, tool selections and XY lines.  The XY line at line i has the
\* position i.
\* ===================================================================

ExTools == {1, 2}

\* float(m.group(2)) * unit_scale of the header's TnC lines
ToolDiameter(t) == t

BodyLines == {"M15", "M16", "T1", "T2", "XY"}

ToolOf(line) == IF line = "T1" THEN 1 ELSE 2

SlotKeepsStart(t, p1, p2) ==
    IF t \in ex_tools THEN Append(ex_slots, [p1 |-> p1, p2 |-> p1, w |-> ToolDiameter(t)])
    ELSE ex_slots

\* ExcellonFile.add_slot
add_slot(t, p1, p2) ==
    IF t \in ex_tools THEN Append(ex_slots, [p1 |-> p1, p2 |-> p2, w |-> ToolDiameter(t)])
    ELSE ex_slots

\* ExcellonFile.add_hole
add_hole(t, p) ==
    IF t \in ex_tools THEN [tool_holes EXCEPT ![t] = Append(@, p)] ELSE tool_holes

M16KeepsChain == last_route_xy

\* M16: last_route_xy = None
AfterM16 == 0

\* One line of the body.
ExcellonLine ==
    /\ ex_no < Len(ex_lines)
    /\ ex_no' = ex_no + 1
    /\ LET line == ex_lines[ex_no + 1]
           xy == ex_no + 1
       IN  CASE line = "M15" ->
                  /\ route_mode' = TRUE
                  /\ UNCHANGED <<last_route_xy, current_tool, tool_holes, ex_slots>>
             [] line = "M16" ->
                  /\ route_mode' = FALSE
                  /\ last_route_xy' = AfterM16
                  /\ UNCHANGED <<current_tool, tool_holes, ex_slots>>
             [] line \in {"T1", "T2"} ->
                  /\ current_tool' = ToolOf(line)
                  /\ last_route_xy' = 0
                  /\ UNCHANGED <<route_mode, tool_holes, ex_slots>>
             [] line = "XY" ->
                  IF current_tool = 0 \/ current_tool \notin ex_tools
                  THEN UNCHANGED <<route_mode, last_route_xy, current_tool, tool_holes, ex_slots>>
                  ELSE IF route_mode
                  THEN /\ last_route_xy' = xy
                       /\ ex_slots' = IF last_route_xy = 0 THEN ex_slots
                                      ELSE add_slot(current_tool, last_route_xy, xy)
                       /\ UNCHANGED <<route_mode, current_tool, tool_holes>>
                  ELSE /\ tool_holes' = add_hole(current_tool, xy)
                       /\ UNCHANGED <<route_mode, last_route_xy, current_tool, ex_slots>>
    /\ UNCHANGED <<ex_tools, ex_lines>>

RouteIdle ==
    /\ ex_tools = {}
    /\ ex_lines = <<>>
    /\ ex_no = 0
    /\ route_mode = FALSE
    /\ last_route_xy = 0
    /\ current_tool = 0
    /\ tool_holes = [t \in ExTools |-> <<>>]
    /\ ex_slots = <<>>

InitRouteVars ==
    /\ ex_tools \in {{1}, {1, 2}}
    /\ ex_lines \in SeqsUpTo(BodyLines, MaxBody)
    /\ ex_no = 0
    /\ route_mode = FALSE
    /\ last_route_xy = 0
    /\ current_tool = 0
    /\ tool_holes = [t \in ExTools |-> <<>>]
    /\ ex_slots = <<>>

\* ===================================================================
\* board_outline._stepdown_list.  Depths and steps are whole numbers of
\* 1e-9 mm, the tolerance of the loop test.
\* ===================================================================

\* DEFAULT_STEPDOWN = 0.5
DEFAULT_STEPDOWN == 500000000

\* the 1e-9 of `while d < full_depth - 1e-9`
EPS == 1

NoStep == [given |-> FALSE, v |-> 0]

Step(v) == [given |-> TRUE, v |-> v]

\* stepdown = float(stepdown) if stepdown and float(stepdown) > 0 else DEFAULT_STEPDOWN
EffectiveStep(sd) == IF sd.given /\ sd.v # 0 /\ sd.v > 0 THEN sd.v ELSE DEFAULT_STEPDOWN

NextDepthUnclamped(a, s, full) == a + s

\* d2 = min(d + stepdown, full_depth)
NextDepth(a, s, full) == Min(a + s, full)

\* One pass of `while d < full_depth - 1e-9`.
StepdownStep ==
    /\ sd_pc = "loop"
    /\ sd_d < full_depth - EPS
    /\ sd_out' = Append(sd_out, NextDepth(sd_d, EffectiveStep(stepdown), full_depth))
    /\ sd_d' = NextDepth(sd_d, EffectiveStep(stepdown), full_depth)
    /\ UNCHANGED <<full_depth, stepdown, sd_pc>>

\* return out
StepdownReturn ==
    /\ sd_pc = "loop"
    /\ ~(sd_d < full_depth - EPS)
    /\ sd_pc' = "done"
    /\ UNCHANGED <<full_depth, stepdown, sd_d, sd_out>>

StepIdle ==
    /\ full_depth = 0
    /\ stepdown = NoStep
    /\ sd_d = 0
    /\ sd_out = <<>>
    /\ sd_pc = "idle"

\* Depths and steps of a few 1e-9 mm, where the tolerance shows, and board
\* thicknesses of 1.0, 1.2 and 1.6 mm with steps of 0.4 and 0.5 mm.
InitStepVars ==
    /\ \/ /\ full_depth \in (-1)..MaxDepth
          /\ stepdown \in {NoStep} \cup {Step(v) : v \in (-1)..MaxStep}
       \/ /\ full_depth \in {1000000000, 1200000000, 1600000000}
          /\ stepdown \in {NoStep, Step(0), Step(-1), Step(400000000), Step(500000000)}
    /\ sd_d = 0
    /\ sd_out = <<>>
    /\ sd_pc = "loop"

\* ===================================================================
\* The retract height each operation writes between its cuts.  Heights
\* are whole millimetres.  job_safe_z is the [job] safe_z key of
\* job_settings.ini as the operations find it.
\* ===================================================================

\* job_config.SAFE_Z = 5.0, the fallback of get_safe_z
SAFE_Z == 5

\* soldermask_clear.SAFE_Z = 5.0
MASK_SAFE_Z == 5

\* drilling.SAFE_Z = 5.0
DRILL_SAFE_Z == 5

\* board_outline.SAFE_Z = 5.0
OUTLINE_SAFE_Z == 5

NoKey == [present |-> FALSE, v |-> 0]

Key(v) == [present |-> TRUE, v |-> v]

\* job_getfloat(section, key, default): cfg.getfloat(..., fallback=default)
job_getfloat(key, default) == IF key.present THEN key.v ELSE default

\* get_safe_z(): job_getfloat("job", "safe_z", SAFE_Z)
get_safe_z == job_getfloat(job_safe_z, SAFE_Z)

\* The writers of the cutting operations, in the order a job runs them; the
\* through-cut operation writes slots, milled holes and the outline walk.
Writers == <<"copper_isolation", "soldermask_clear", "drilling", "slots",
             "milled_holes", "outline", "silkscreen">>

RetractAlwaysConfigured(w) == get_safe_z

\* The Z of the `G0 Z...` each writer emits before and after a cut:
\*   copper isolation  geom_utils._write_line_as_gcode    get_safe_z()
\*   soldermask clear  run_mask                           SAFE_Z
\*   drilling          run_drill (planned and legacy)     SAFE_Z
\*   slots, holes      board_outline._write_polyline      SAFE_Z
\*   outline walk      board_outline.run_outline          SAFE_Z
\*   silkscreen        run_silk                           float(get_safe_z())
RetractZ(w) ==
    CASE w = "copper_isolation" -> get_safe_z
      [] w = "soldermask_clear" -> MASK_SAFE_Z
      [] w = "drilling" -> DRILL_SAFE_Z
      [] w \in {"slots", "milled_holes", "outline"} -> OUTLINE_SAFE_Z
      [] w = "silkscreen" -> get_safe_z

\* One writer emits a cut: G0 Z<retract>, G0 X Y, the cut, G0 Z<retract>.
\* A writer may be skipped (operation unchecked or nothing to cut).
WriteCut ==
    \E i \in (writer_no + 1)..Len(Writers) :
        /\ writer_no' = i
        /\ retracts' = Append(retracts, [op |-> Writers[i], z |-> RetractZ(Writers[i])])
        /\ UNCHANGED job_safe_z

RetractIdle ==
    /\ job_safe_z = NoKey
    /\ retracts = <<>>
    /\ writer_no = 0

\* ui_state.set_safe_z stores max(0.0, v); a hand-edited file may hold any number.
InitRetractVars ==
    /\ job_safe_z \in {NoKey} \cup {Key(v) : v \in 0..MaxSafeZ}
    /\ retracts = <<>>
    /\ writer_no = 0

\* ===================================================================
\* board_outline._write_polyline (geom_utils._write_line_as_gcode has the
\* same body).  Points are whole millimetres and consecutive points share
\* a coordinate, so every segment length is a whole number.
\* ===================================================================

PolyPts == (0..MaxCoord) \X (0..MaxCoord)

\* math.hypot, exact on segments parallel to an axis
hypot(dx, dy) == CHOOSE n \in 0..(Abs(dx) + Abs(dy)) : n * n = dx * dx + dy * dy

Rapid(p) == [kind |-> "G0", p |-> p, z |-> "same"]

RampMove(p) == [kind |-> "G1", p |-> p, z |-> "depth"]

Feed(p) == [kind |-> "G1", p |-> p, z |-> "same"]

\* t = remaining / seg; ramp_pt = p0 + (p1 - p0) * t
Interpolate(a, b, rem, sl) ==
    <<a[1] + ((b[1] - a[1]) * rem) \div sl, a[2] + ((b[2] - a[2]) * rem) \div sl>>

NoRampPt == <<>>

\* G0 to pts[0]; with ramp_len <= 0 the plunge and a G1 to each later point.
PolyStart ==
    /\ poly_pc = "start"
    /\ IF poly_ramp_len > 0
       THEN /\ gmoves' = <<Rapid(poly_pts[1])>>
            /\ poly_pc' = "scan"
       ELSE /\ gmoves' = <<Rapid(poly_pts[1])>> \o
                         [j \in 1..(Len(poly_pts) - 1) |-> Feed(poly_pts[j + 1])]
            /\ poly_pc' = "done"
    /\ UNCHANGED <<poly_pts, poly_ramp_len, ramp_remaining, ramp_p0, ramp_i, ramp_pt, ramp_index>>

\* One pass of `for i in range(1, len(pts))`.
RampScan ==
    /\ poly_pc = "scan"
    /\ ramp_i <= Len(poly_pts)
    /\ LET p1 == poly_pts[ramp_i]
           sl == hypot(p1[1] - ramp_p0[1], p1[2] - ramp_p0[2])
       IN  IF sl <= 0
           THEN /\ ramp_p0' = p1
                /\ ramp_i' = ramp_i + 1
                /\ UNCHANGED <<ramp_remaining, ramp_pt, ramp_index, poly_pc>>
           ELSE IF sl >= ramp_remaining
           THEN /\ ramp_pt' = Interpolate(ramp_p0, p1, ramp_remaining, sl)
                /\ ramp_index' = ramp_i
                /\ poly_pc' = "write"
                /\ UNCHANGED <<ramp_remaining, ramp_p0, ramp_i>>
           ELSE /\ ramp_remaining' = ramp_remaining - sl
                /\ ramp_p0' = p1
                /\ ramp_i' = ramp_i + 1
                /\ UNCHANGED <<ramp_pt, ramp_index, poly_pc>>
    /\ UNCHANGED <<poly_pts, poly_ramp_len, gmoves>>

\* Loop exhausted: `if ramp_pt is None: ramp_pt = pts[1]; ramp_index = 1`.
RampFallback ==
    /\ poly_pc = "scan"
    /\ ramp_i > Len(poly_pts)
    /\ ramp_pt' = poly_pts[2]
    /\ ramp_index' = 2
    /\ poly_pc' = "write"
    /\ UNCHANGED <<poly_pts, poly_ramp_len, ramp_remaining, ramp_p0, ramp_i, gmoves>>

\* The ramp move, the rest of its segment, then every later point.
\* ramp_index is 1-based here: pts[ramp_index] of the code is poly_pts[ramp_index].
RampWrite ==
    /\ poly_pc = "write"
    /\ LET end_seg == poly_pts[ramp_index]
           finish == IF end_seg # ramp_pt THEN <<Feed(end_seg)>> ELSE <<>>
           rest == [j \in 1..(Len(poly_pts) - ramp_index) |-> Feed(poly_pts[ramp_index + j])]
       IN  gmoves' = gmoves \o <<RampMove(ramp_pt)>> \o finish \o rest
    /\ poly_pc' = "done"
    /\ UNCHANGED <<poly_pts, poly_ramp_len, ramp_remaining, ramp_p0, ramp_i, ramp_pt, ramp_index>>

PolyIdle ==
    /\ poly_pts = <<>>
    /\ poly_ramp_len = 0
    /\ ramp_remaining = 0
    /\ ramp_p0 = <<>>
    /\ ramp_i = 0
    /\ ramp_pt = NoRampPt
    /\ ramp_index = 0
    /\ gmoves = <<>>
    /\ poly_pc = "idle"

\* Polylines of 2..MaxVerts points with axis-parallel (or empty) segments.
PolyInputs ==
    UNION {{q \in [1..n -> PolyPts] :
              \A j \in 1..(n - 1) : q[j][1] = q[j + 1][1] \/ q[j][2] = q[j + 1][2]}
           : n \in 2..MaxVerts}

InitPolyVars ==
    /\ poly_pts \in PolyInputs
    /\ poly_ramp_len \in 0..MaxRamp
    /\ ramp_remaining = poly_ramp_len
    /\ ramp_p0 = poly_pts[1]
    /\ ramp_i = 2
    /\ ramp_pt = NoRampPt
    /\ ramp_index = 2
    /\ gmoves = <<>>
    /\ poly_pc = "start"

\* ===================================================================
\* board_outline._slot_offsets.  Widths, diameters and offsets are whole
\* numbers of 1e-9 mm; tool diameters are multiples of 5 and w - t is
\* even, so 0.6 * t and (w - t) / 2 are whole.
\* ===================================================================

\* tool_d >= slot_w * 0.999, i.e. 1000 * (slot_w - tool_d) <= slot_w
FillsSlot(t, w) == (w - t) <= (w \div 1000)

\* off = (slot_w - tool_d) / 2.0
SlotOff(w, t) == (w - t) \div 2

\* step = tool_d * 0.60
SlotStep(t) == (t \div 5) * 3

NextOffsetUnclamped(r, st, off) == r + st

\* r = min(r + step, off)
NextOffset(r, st, off) == Min(r + st, off)

\* out = [0.0]; for r in offsets: out.append(+r); out.append(-r)
Mirror(offs) ==
    <<0>> \o [j \in 1..(2 * Len(offs)) |->
                 IF j % 2 = 1 THEN offs[(j + 1) \div 2] ELSE -offs[j \div 2]]

\* The two early `return [0.0]`, else entry to the loop with r = 0.0.
SlotOffsetsStart ==
    /\ so_pc = "start"
    /\ IF FillsSlot(tool_d, slot_w) \/ SlotStep(tool_d) <= 0
       THEN /\ so_out' = <<0>>
            /\ so_pc' = "done"
       ELSE /\ so_out' = so_out
            /\ so_pc' = "loop"
    /\ UNCHANGED <<slot_w, tool_d, so_r, so_offsets>>

\* One pass of `while r < off - 1e-9`.
SlotOffsetsStep ==
    /\ so_pc = "loop"
    /\ so_r < SlotOff(slot_w, tool_d) - EPS
    /\ so_r' = NextOffset(so_r, SlotStep(tool_d), SlotOff(slot_w, tool_d))
    /\ so_offsets' = Append(so_offsets, so_r')
    /\ UNCHANGED <<slot_w, tool_d, so_out, so_pc>>

\* Loop exit and `return out`.
SlotOffsetsReturn ==
    /\ so_pc = "loop"
    /\ ~(so_r < SlotOff(slot_w, tool_d) - EPS)
    /\ so_out' = Mirror(so_offsets)
    /\ so_pc' = "done"
    /\ UNCHANGED <<slot_w, tool_d, so_r, so_offsets>>

SlotIdle ==
    /\ slot_w = 0
    /\ tool_d = 0
    /\ so_r = 0
    /\ so_offsets = <<>>
    /\ so_out = <<>>
    /\ so_pc = "idle"

\* Tools of a few 1e-9 mm, where the tolerance of the loop shows, and
\* slots of 1.0 and 2.0 mm with tools from 0.4 mm up.
InitSlotVars ==
    /\ \/ /\ tool_d \in {5 * a : a \in 0..MaxTool}
          /\ slot_w \in {tool_d + 2 * b : b \in (-1)..MaxOff}
       \/ /\ slot_w \in {1000000000, 2000000000}
          /\ tool_d \in {400000000, 800000000, 999000000, 999500000,
                         1000000000, 1600000000}
    /\ so_r = 0
    /\ so_offsets = <<>>
    /\ so_out = <<>>
    /\ so_pc = "start"

\* ===================================================================
\* board_outline._mill_hole.  Diameters and radii are whole numbers of
\* 0.1 mm; tool diameters are multiples of 5 and d - t is even, so 0.6 * t
\* and (d - t) / 2 are whole.  Depths are whole numbers of 1e-9 mm.
\* ===================================================================

\* _stepdown_list(full_depth, stepdown) as a list: the loop of StepdownStep
RECURSIVE StepdownFrom(_, _, _)
StepdownFrom(a, sd, full) ==
    IF a < full - EPS
    THEN <<NextDepth(a, EffectiveStep(sd), full)>>
             \o StepdownFrom(NextDepth(a, EffectiveStep(sd), full), sd, full)
    ELSE <<>>

\* hole_d <= tool_d * 1.02
DrillSize(hd, t) == 50 * hd <= 51 * t

RingKeepsAll(rr, t) == TRUE

\* rr > tool_d * 0.25
RingWorthCutting(rr, t) == 4 * rr > t

\* The two early returns, else rr = r = (hole_d - tool_d) / 2.
MillHoleStart ==
    /\ mh_pc = "start"
    /\ IF DrillSize(mh_hole_d, mh_tool_d) \/ (mh_hole_d - mh_tool_d) \div 2 <= 0
       THEN /\ mh_pc' = "done"
            /\ mh_rr' = mh_rr
       ELSE /\ mh_pc' = "rings"
            /\ mh_rr' = (mh_hole_d - mh_tool_d) \div 2
    /\ UNCHANGED <<mh_hole_d, mh_tool_d, mh_full_depth, mh_rings, mh_writes>>

\* One pass of `while rr > tool_d * 0.25`, with its `if rr <= 0: break`.
MillHoleRing ==
    /\ mh_pc = "rings"
    /\ RingWorthCutting(mh_rr, mh_tool_d)
    /\ mh_rings' = Append(mh_rings, mh_rr)
    /\ mh_rr' = mh_rr - SlotStep(mh_tool_d)
    /\ mh_pc' = IF mh_rr' <= 0 THEN "write" ELSE "rings"
    /\ UNCHANGED <<mh_hole_d, mh_tool_d, mh_full_depth, mh_writes>>

MillHoleRingsDone ==
    /\ mh_pc = "rings"
    /\ ~RingWorthCutting(mh_rr, mh_tool_d)
    /\ mh_pc' = "write"
    /\ UNCHANGED <<mh_hole_d, mh_tool_d, mh_full_depth, mh_rr, mh_rings, mh_writes>>

\* for z in depths: for rr in rings: _write_polyline(circle of radius rr, z)
MillHoleWrite ==
    /\ mh_pc = "write"
    /\ LET zs == StepdownFrom(0, Step(DEFAULT_STEPDOWN), mh_full_depth)
           n == Len(mh_rings)
       IN  mh_writes' = [j \in 1..(Len(zs) * n) |->
                            [z |-> zs[((j - 1) \div n) + 1], r |-> mh_rings[((j - 1) % n) + 1]]]
    /\ mh_pc' = "done"
    /\ UNCHANGED <<mh_hole_d, mh_tool_d, mh_full_depth, mh_rr, mh_rings>>

MillIdle ==
    /\ mh_hole_d = 0
    /\ mh_tool_d = 0
    /\ mh_full_depth = 0
    /\ mh_rr = 0
    /\ mh_rings = <<>>
    /\ mh_writes = <<>>
    /\ mh_pc = "idle"

\* Router bits of 0.5 mm upward and holes from just below the bit's size.
InitMillVars ==
    /\ mh_tool_d \in {5 * a : a \in 1..MaxMillTool}
    /\ mh_hole_d \in {mh_tool_d + 2 * b : b \in (-1)..MaxRingOff}
    /\ mh_full_depth \in {0, 1000000000, 1600000000}
    /\ mh_rr = 0
    /\ mh_rings = <<>>
    /\ mh_writes = <<>>
    /\ mh_pc = "start"

\* ===================================================================
\* The holes run_drill pecks and the holes run_outline mills, on one
\* deduplicated hole list.  Diameters are whole numbers of 0.1 mm; a hole
\* is named by its index in the list.
\* ===================================================================

\* drilling.py: small_holes_raw = [... if float(d) < float(mill_over)]
small_holes(hs, over) == {i \in 1..Len(hs) : hs[i] < over}

\* board_outline.py: big_holes = [... if float(d) >= float(mill_over)]
big_holes(hs, over) == {i \in 1..Len(hs) : hs[i] >= over}

\* board_outline.py: extra_mill_holes, filled only for single_plus_mill
extra_mill_holes(hs, over, mode, target, t) ==
    IF mode = "single_plus_mill"
    THEN {i \in 1..Len(hs) : ~(hs[i] >= over) /\ ~(Abs(hs[i] - target) <= t)}
    ELSE {}

\* _mill_hole writes at least one ring: none of its early returns is taken
\* and the first radius r = (hole_d - tool_d) / 2 passes rr > tool_d * 0.25
WritesRing(hd, t) == ~DrillSize(hd, t) /\ hd - t > 0 /\ 2 * (hd - t) > t

\* run_drill from `mill_over = load_mill_holes_over()` on: every small hole
\* is pecked, in the planned mode only if every hole finds a drill.
RunDrillHoles ==
    /\ th_ran = {}
    /\ LET sm == small_holes(th_holes, th_mill_over)
           hs == Pick(th_holes, sm)
       IN  IF sm = {}
           THEN drilled' = {}
           ELSE IF th_drill_bits # <<>>
           THEN drilled' = IF _assign_holes_to_drills(hs, th_drill_bits, th_tol).err # "none"
                           THEN {}
                           ELSE sm
           ELSE drilled' = sm
    /\ th_ran' = {"drilling"}
    /\ UNCHANGED <<th_holes, th_mill_over, th_router_d, th_drill_mode, th_target, th_tol,
                   th_drill_bits, milled>>

\* run_outline: _mill_hole for each of big_holes + extra_mill_holes.
RunOutlineHoles ==
    /\ th_ran = {"drilling"}
    /\ milled' = {i \in big_holes(th_holes, th_mill_over)
                          \cup extra_mill_holes(th_holes, th_mill_over, th_drill_mode,
                                                th_target, th_tol) :
                     WritesRing(th_holes[i], th_router_d)}
    /\ th_ran' = {"drilling", "board_outline"}
    /\ UNCHANGED <<th_holes, th_mill_over, th_router_d, th_drill_mode, th_target, th_tol,
                   th_drill_bits, drilled>>

ThroughIdle ==
    /\ th_holes = <<>>
    /\ th_mill_over = 0
    /\ th_router_d = 0
    /\ th_drill_mode = "multi"
    /\ th_target = 0
    /\ th_tol = 0
    /\ th_drill_bits = <<>>
    /\ drilled = {}
    /\ milled = {}
    /\ th_ran = {}

\* Holes of 0.6 mm upward in steps of 0.3 mm, mill_holes_over 1.2 mm, router
\* bits of 0.5, 1 and 2 mm, single_drill_diam 0.6 or 0.9 mm; the legacy drill call
\* (no drill_bits) and planned calls with a 0.6 mm or a 0.9 mm drill.
InitThroughVars ==
    /\ th_holes \in UNION {[1..n -> {6 + 3 * i : i \in 0..MaxThD}] : n \in 1..MaxThHoles}
    /\ th_mill_over = 12
    /\ th_router_d \in {5, 10, 20}
    /\ th_drill_mode \in {"multi", "single", "single_plus_mill"}
    /\ th_target \in {6, 9}
    /\ th_tol \in {0, 1}
    /\ th_drill_bits \in {<<>>, <<[name |-> 1, diameter |-> 6]>>, <<[name |-> 1, diameter |-> 9]>>}
    /\ drilled = {}
    /\ milled = {}
    /\ th_ran = {}

\* ===================================================================
\* The write phase of board_outline.run_outline: tool change, slots,
\* milled holes, outline walk, end sequence.  Slot end points lie on a
\* line (Pts), as in the ordering model; a slot is [p1, p2, w].
\* ===================================================================

\* _order_segments_nearest(segments, start_xy): the loop of
\* order_lines_nearest with reversal allowed, on lists of points
RECURSIVE _order_segments_nearest(_, _)
_order_segments_nearest(rem, c) ==
    IF rem = <<>> THEN <<>>
    ELSE LET b == NearestScan(rem, c, TRUE, 1, [i |-> 1, flip |-> FALSE, d2 |-> -1])
             p == Picked(rem[b.i], b)
         IN  <<p>> \o _order_segments_nearest(Pop(rem, b.i), p[Len(p)])

\* slot_map[_seg_key(pts[0], pts[1])]: both directions of every slot are
\* stored, a later slot with the same end points replaces an earlier one
slot_map(sl, seg) ==
    sl[CHOOSE i \in 1..Len(sl) :
          /\ {sl[i].p1, sl[i].p2} = {seg[1], seg[2]}
          /\ \A j \in (i + 1)..Len(sl) : {sl[j].p1, sl[j].p2} # {seg[1], seg[2]}]

\* slots_ord: the ordered segments with the slot found under their key,
\* turned into the direction of the ordered segment
slots_ord(sl) ==
    LET segs == [i \in 1..Len(sl) |-> <<sl[i].p1, sl[i].p2>>]
        ord == _order_segments_nearest(segs, 0)
    IN  [j \in 1..Len(ord) |->
            LET s == slot_map(sl, ord[j])
            IN  IF s.p1 = ord[j][1]
                THEN [p1 |-> s.p1, p2 |-> s.p2, w |-> s.w]
                ELSE [p1 |-> s.p2, p2 |-> s.p1, w |-> s.w]]

Section(kind) == [kind |-> kind, p1 |-> 0, p2 |-> 0, w |-> 0]

\* _mill_slot: nothing for a slot of length < 1e-9, else its passes
_mill_slot(s) ==
    IF Abs(s.p2 - s.p1) < 1
    THEN <<>>
    ELSE <<[kind |-> "slot", p1 |-> s.p1, p2 |-> s.p2, w |-> s.w]>>

RECURSIVE FlatMap(_, _)
FlatMap(Op(_), s) == IF s = <<>> THEN <<>> ELSE Op(Head(s)) \o FlatMap(Op, Tail(s))

\* _mill_hole for a hole of diameter hd with a through-cut bit of 1 mm
MillHoleSection(hd) == IF WritesRing(hd, 10) THEN <<Section("hole")>> ELSE <<>>

\* The `with open(out, "a") as g:` block of run_outline.
ThroughCuts ==
    /\ oc_pc = "start"
    /\ oc_out' = <<Section("toolchange")>>
                   \o FlatMap(_mill_slot, slots_ord(oc_slots))
                   \o FlatMap(MillHoleSection, oc_holes)
                   \o (IF oc_coords THEN <<Section("walk")>> ELSE <<>>)
                   \o <<Section("end")>>
    /\ oc_pc' = "done"
    /\ UNCHANGED <<oc_slots, oc_holes, oc_coords>>

CutsIdle ==
    /\ oc_slots = <<>>
    /\ oc_holes = <<>>
    /\ oc_coords = FALSE
    /\ oc_out = <<>>
    /\ oc_pc = "idle"

\* Up to MaxSlots slots of width 1 or 2 between points of Pts, up to one
\* hole of 1.2 or 1.8 mm, an outline with or without coordinates.
InitCutsVars ==
    /\ oc_slots \in SeqsUpTo([p1 : Pts, p2 : Pts, w : 1..2], MaxSlots)
    /\ oc_holes \in {<<>>, <<12>>, <<18>>}
    /\ oc_coords \in BOOLEAN
    /\ oc_out = <<>>
    /\ oc_pc = "start"

\* ===================================================================
\* gerber_parser.parse_gerber_full outside regions: aperture definitions,
\* aperture selection, and D01 / D02 / D03 operations.  Points lie on a
\* line; every defined aperture is a circle of positive diameter, so each
\* draw or flash with a defined aperture yields a geometry.
\* ===================================================================

ApIds == {10, 11}

ApCmds ==
    {[op |-> o, id |-> i, pt |-> 0] : o \in {"ADD", "sel"}, i \in ApIds}
    \cup {[op |-> o, id |-> 0, pt |-> p] : o \in {"D01", "D02", "D03"}, p \in 0..MaxApPt}

\* silkscreen_mill.run_silk: one segment per recorded draw longer than MIN_SEGMENT
silk_segs(tr) ==
    LET keep == {j \in 1..Len(tr) : tr[j][2] # tr[j][3]}
    IN  Pick(tr, keep)

\* One iteration of `for raw in lines`.
ApertureLine ==
    /\ ap_pc = "parsing"
    /\ ap_no < Len(ap_lines)
    /\ ap_no' = ap_no + 1
    /\ LET l == ap_lines[ap_no + 1]
           undefined == ap_cur # <<>> /\ ap_cur[1] \notin ap_table
           geoms == IF ap_polarity = "D" THEN ap_dark ELSE ap_clear
       IN  CASE l.op = "ADD" ->
                  /\ ap_table' = ap_table \cup {l.id}
                  /\ UNCHANGED <<ap_cur, ap_prev, tracks, flashes, ap_dark, ap_clear,
                                 ap_warnings, ap_pc>>
             [] l.op = "sel" ->
                  /\ ap_cur' = <<l.id>>
                  /\ UNCHANGED <<ap_table, ap_prev, tracks, flashes, ap_dark, ap_clear,
                                 ap_warnings, ap_pc>>
             [] l.op = "D03" /\ ap_cur # <<>> ->
                  IF undefined /\ ap_strict
                  THEN /\ ap_pc' = "raised"
                       /\ UNCHANGED <<ap_table, ap_cur, ap_prev, tracks, flashes, ap_dark,
                                      ap_clear, ap_warnings>>
                  ELSE /\ ap_warnings' = ap_warnings + (IF undefined THEN 1 ELSE 0)
                       /\ flashes' = Append(flashes, <<ap_cur[1], l.pt>>)
                       /\ IF undefined
                          THEN UNCHANGED <<ap_dark, ap_clear>>
                          ELSE IF ap_polarity = "D"
                          THEN ap_dark' = Append(ap_dark, <<l.pt, l.pt>>) /\ UNCHANGED ap_clear
                          ELSE ap_clear' = Append(ap_clear, <<l.pt, l.pt>>) /\ UNCHANGED ap_dark
                       /\ ap_prev' = <<l.pt>>
                       /\ UNCHANGED <<ap_table, ap_cur, tracks, ap_pc>>
             [] l.op = "D01" /\ ap_prev # <<>> /\ ap_cur # <<>> ->
                  IF undefined /\ ap_strict
                  THEN /\ ap_pc' = "raised"
                       /\ UNCHANGED <<ap_table, ap_cur, ap_prev, tracks, flashes, ap_dark,
                                      ap_clear, ap_warnings>>
                  ELSE /\ ap_warnings' = ap_warnings + (IF undefined THEN 1 ELSE 0)
                       /\ tracks' = Append(tracks, <<ap_cur[1], ap_prev[1], l.pt>>)
                       /\ IF undefined
                          THEN UNCHANGED <<ap_dark, ap_clear>>
                          ELSE IF ap_polarity = "D"
                          THEN ap_dark' = Append(ap_dark, <<ap_prev[1], l.pt>>)
                               /\ UNCHANGED ap_clear
                          ELSE ap_clear' = Append(ap_clear, <<ap_prev[1], l.pt>>)
                               /\ UNCHANGED ap_dark
                       /\ ap_prev' = <<l.pt>>
                       /\ UNCHANGED <<ap_table, ap_cur, flashes, ap_pc>>
             [] l.op = "D02" ->
                  /\ ap_prev' = <<l.pt>>
                  /\ UNCHANGED <<ap_table, ap_cur, tracks, flashes, ap_dark, ap_clear,
                                 ap_warnings, ap_pc>>
             [] OTHER ->
                  UNCHANGED <<ap_table, ap_cur, ap_prev, tracks, flashes, ap_dark, ap_clear,
                              ap_warnings, ap_pc>>
    /\ UNCHANGED <<ap_lines, ap_strict, ap_polarity>>

ApertureIdle ==
    /\ ap_lines = <<>>
    /\ ap_strict = FALSE
    /\ ap_polarity = "D"
    /\ ap_no = 0
    /\ ap_table = {}
    /\ ap_cur = <<>>
    /\ ap_prev = <<>>
    /\ tracks = <<>>
    /\ flashes = <<>>
    /\ ap_dark = <<>>
    /\ ap_clear = <<>>
    /\ ap_warnings = 0
    /\ ap_pc = "idle"

InitApertureVars ==
    /\ ap_lines \in SeqsUpTo(ApCmds, MaxApLines)
    /\ ap_strict \in BOOLEAN
    /\ ap_polarity \in {"D", "C"}
    /\ ap_no = 0
    /\ ap_table = {}
    /\ ap_cur = <<>>
    /\ ap_prev = <<>>
    /\ tracks = <<>>
    /\ flashes = <<>>
    /\ ap_dark = <<>>
    /\ ap_clear = <<>>
    /\ ap_warnings = 0
    /\ ap_pc = "parsing"

\* ===================================================================
\* excellon_parser: tool definitions, tool selection and drill hits in
\* drill mode (no M15 in the file).  A tool is [defined, diameter, holes];
\* points are numbers.
\* ===================================================================

ToolIds == {1, 2}

UndefinedTool == [defined |-> FALSE, diameter |-> 0, holes |-> <<>>]

\* ExcellonTool(tool_id, diameter): a tool with an empty hole list
ExcellonTool(dm) == [defined |-> TRUE, diameter |-> dm, holes |-> <<>>]

\* ExcellonFile.add_tool: self.tools[tool_id] = ExcellonTool(tool_id, diameter)
add_tool(tools, t, dm) == [tools EXCEPT ![t] = ExcellonTool(dm)]

\* ExcellonFile.add_hole on a tool table
AddHoleTo(tools, t, p) ==
    IF tools[t].defined THEN [tools EXCEPT ![t].holes = Append(@, p)] ELSE tools

\* ExcellonFile.all_holes, as the set of (point, diameter) it lists
all_holes(tools) ==
    UNION {{<<tools[t].holes[j], tools[t].diameter>> : j \in 1..Len(tools[t].holes)} :
              t \in {u \in ToolIds : tools[u].defined}}

ToolCmds ==
    {[op |-> "def", t |-> t, v |-> dm] : t \in ToolIds, dm \in 1..2}
    \cup {[op |-> "sel", t |-> t, v |-> 0] : t \in ToolIds}
    \cup {[op |-> "xy", t |-> 0, v |-> p] : p \in 0..1}

\* One line of the body: TnCd defines a tool, Tn selects one, X..Y.. is a
\* hit, dropped with a warning when the selected tool is not defined.
ToolLine ==
    /\ td_no < Len(td_lines)
    /\ td_no' = td_no + 1
    /\ LET l == td_lines[td_no + 1]
       IN  CASE l.op = "def" ->
                  /\ td_tools' = add_tool(td_tools, l.t, l.v)
                  /\ UNCHANGED <<td_current, td_hits>>
             [] l.op = "sel" ->
                  /\ td_current' = l.t
                  /\ UNCHANGED <<td_tools, td_hits>>
             [] l.op = "xy" ->
                  IF td_current # 0 /\ td_tools[td_current].defined
                  THEN /\ td_tools' = AddHoleTo(td_tools, td_current, l.v)
                       /\ td_hits' = td_hits \cup {<<l.v, td_tools[td_current].diameter>>}
                       /\ UNCHANGED td_current
                  ELSE UNCHANGED <<td_tools, td_current, td_hits>>
    /\ UNCHANGED td_lines

ToolIdle ==
    /\ td_lines = <<>>
    /\ td_no = 0
    /\ td_tools = [t \in ToolIds |-> UndefinedTool]
    /\ td_current = 0
    /\ td_hits = {}

InitToolVars ==
    /\ td_lines \in SeqsUpTo(ToolCmds, MaxDefLines)
    /\ td_no = 0
    /\ td_tools = [t \in ToolIds |-> UndefinedTool]
    /\ td_current = 0
    /\ td_hits = {}

\* ===================================================================
\* Specifications
\* Each specification runs one part of the program; the variables of
\* the other parts stay at their idle values.
\* ===================================================================
InitDedupe ==
    /\ InitDedupeVars
    /\ PlanIdle
    /\ JobIdle
    /\ GerberIdle
    /\ StrictIdle
    /\ TabIdle
    /\ OrderIdle
    /\ CoordIdle
    /\ RouteIdle
    /\ StepIdle
    /\ RetractIdle
    /\ PolyIdle
    /\ SlotIdle
    /\ MillIdle
    /\ ThroughIdle
    /\ CutsIdle
    /\ ApertureIdle
    /\ ToolIdle

NextDedupe ==
    \/ DedupeStep /\ UNCHANGED <<planVars, jobVars, gerberVars, strictVars, tabVars, orderVars, coordVars, routeVars, stepVars, retractVars, polyVars, slotVars, millVars, throughVars, cutsVars, apertureVars, toolVars>>

SpecDedupe == InitDedupe /\ [][NextDedupe]_vars

InitPlan ==
    /\ InitPlanVars
    /\ DedupeIdle
    /\ JobIdle
    /\ GerberIdle
    /\ StrictIdle
    /\ TabIdle
    /\ OrderIdle
    /\ CoordIdle
    /\ RouteIdle
    /\ StepIdle
    /\ RetractIdle
    /\ PolyIdle
    /\ SlotIdle
    /\ MillIdle
    /\ ThroughIdle
    /\ CutsIdle
    /\ ApertureIdle
    /\ ToolIdle

NextPlan ==
    \/ PlanStart /\ UNCHANGED <<dedupeVars, jobVars, gerberVars, strictVars, tabVars, orderVars, coordVars, routeVars, stepVars, retractVars, polyVars, slotVars, millVars, throughVars, cutsVars, apertureVars, toolVars>>
    \/ PlanReduce /\ UNCHANGED <<dedupeVars, jobVars, gerberVars, strictVars, tabVars, orderVars, coordVars, routeVars, stepVars, retractVars, polyVars, slotVars, millVars, throughVars, cutsVars, apertureVars, toolVars>>
    \/ PlanReturn /\ UNCHANGED <<dedupeVars, jobVars, gerberVars, strictVars, tabVars, orderVars, coordVars, routeVars, stepVars, retractVars, polyVars, slotVars, millVars, throughVars, cutsVars, apertureVars, toolVars>>
    \/ AssignHoles /\ UNCHANGED <<dedupeVars, jobVars, gerberVars, strictVars, tabVars, orderVars, coordVars, routeVars, stepVars, retractVars, polyVars, slotVars, millVars, throughVars, cutsVars, apertureVars, toolVars>>

SpecPlan == InitPlan /\ [][NextPlan]_vars

Init ==
    /\ InitJobVars
    /\ DedupeIdle
    /\ PlanIdle
    /\ GerberIdle
    /\ StrictIdle
    /\ TabIdle
    /\ OrderIdle
    /\ CoordIdle
    /\ RouteIdle
    /\ StepIdle
    /\ RetractIdle
    /\ PolyIdle
    /\ SlotIdle
    /\ MillIdle
    /\ ThroughIdle
    /\ CutsIdle
    /\ ApertureIdle
    /\ ToolIdle

Next ==
    \/ PickBoard /\ UNCHANGED <<dedupeVars, planVars, gerberVars, strictVars, tabVars, orderVars, coordVars, routeVars, stepVars, retractVars, polyVars, slotVars, millVars, throughVars, cutsVars, apertureVars, toolVars>>
    \/ ToggleLayer /\ UNCHANGED <<dedupeVars, planVars, gerberVars, strictVars, tabVars, orderVars, coordVars, routeVars, stepVars, retractVars, polyVars, slotVars, millVars, throughVars, cutsVars, apertureVars, toolVars>>
    \/ SetCombined /\ UNCHANGED <<dedupeVars, planVars, gerberVars, strictVars, tabVars, orderVars, coordVars, routeVars, stepVars, retractVars, polyVars, slotVars, millVars, throughVars, cutsVars, apertureVars, toolVars>>
    \/ RunJob /\ UNCHANGED <<dedupeVars, planVars, gerberVars, strictVars, tabVars, orderVars, coordVars, routeVars, stepVars, retractVars, polyVars, slotVars, millVars, throughVars, cutsVars, apertureVars, toolVars>>

Spec == Init /\ [][Next]_vars

InitGerber ==
    /\ InitGerberVars
    /\ DedupeIdle
    /\ PlanIdle
    /\ JobIdle
    /\ StrictIdle
    /\ TabIdle
    /\ OrderIdle
    /\ CoordIdle
    /\ RouteIdle
    /\ StepIdle
    /\ RetractIdle
    /\ PolyIdle
    /\ SlotIdle
    /\ MillIdle
    /\ ThroughIdle
    /\ CutsIdle
    /\ ApertureIdle
    /\ ToolIdle

NextGerber ==
    \/ GerberLine /\ UNCHANGED <<dedupeVars, planVars, jobVars, strictVars, tabVars, orderVars, coordVars, routeVars, stepVars, retractVars, polyVars, slotVars, millVars, throughVars, cutsVars, apertureVars, toolVars>>

SpecGerber == InitGerber /\ [][NextGerber]_vars

InitStrict ==
    /\ InitStrictVars
    /\ DedupeIdle
    /\ PlanIdle
    /\ JobIdle
    /\ GerberIdle
    /\ TabIdle
    /\ OrderIdle
    /\ CoordIdle
    /\ RouteIdle
    /\ StepIdle
    /\ RetractIdle
    /\ PolyIdle
    /\ SlotIdle
    /\ MillIdle
    /\ ThroughIdle
    /\ CutsIdle
    /\ ApertureIdle
    /\ ToolIdle

NextStrict ==
    \/ ParseCond /\ UNCHANGED <<dedupeVars, planVars, jobVars, gerberVars, tabVars, orderVars, coordVars, routeVars, stepVars, retractVars, polyVars, slotVars, millVars, throughVars, cutsVars, apertureVars, toolVars>>
    \/ ParseReturn /\ UNCHANGED <<dedupeVars, planVars, jobVars, gerberVars, tabVars, orderVars, coordVars, routeVars, stepVars, retractVars, polyVars, slotVars, millVars, throughVars, cutsVars, apertureVars, toolVars>>

SpecStrict == InitStrict /\ [][NextStrict]_vars

InitTabs ==
    /\ InitTabVars
    /\ DedupeIdle
    /\ PlanIdle
    /\ JobIdle
    /\ GerberIdle
    /\ StrictIdle
    /\ OrderIdle
    /\ CoordIdle
    /\ RouteIdle
    /\ StepIdle
    /\ RetractIdle
    /\ PolyIdle
    /\ SlotIdle
    /\ MillIdle
    /\ ThroughIdle
    /\ CutsIdle
    /\ ApertureIdle
    /\ ToolIdle

NextTabs ==
    \/ TabStep /\ UNCHANGED <<dedupeVars, planVars, jobVars, gerberVars, strictVars, orderVars, coordVars, routeVars, stepVars, retractVars, polyVars, slotVars, millVars, throughVars, cutsVars, apertureVars, toolVars>>
    \/ WalkStart /\ UNCHANGED <<dedupeVars, planVars, jobVars, gerberVars, strictVars, orderVars, coordVars, routeVars, stepVars, retractVars, polyVars, slotVars, millVars, throughVars, cutsVars, apertureVars, toolVars>>
    \/ WalkStep /\ UNCHANGED <<dedupeVars, planVars, jobVars, gerberVars, strictVars, orderVars, coordVars, routeVars, stepVars, retractVars, polyVars, slotVars, millVars, throughVars, cutsVars, apertureVars, toolVars>>
    \/ WalkEnd /\ UNCHANGED <<dedupeVars, planVars, jobVars, gerberVars, strictVars, orderVars, coordVars, routeVars, stepVars, retractVars, polyVars, slotVars, millVars, throughVars, cutsVars, apertureVars, toolVars>>

SpecTabs == InitTabs /\ [][NextTabs]_vars

InitOrder ==
    /\ InitOrderVars
    /\ DedupeIdle
    /\ PlanIdle
    /\ JobIdle
    /\ GerberIdle
    /\ StrictIdle
    /\ TabIdle
    /\ CoordIdle
    /\ RouteIdle
    /\ StepIdle
    /\ RetractIdle
    /\ PolyIdle
    /\ SlotIdle
    /\ MillIdle
    /\ ThroughIdle
    /\ CutsIdle
    /\ ApertureIdle
    /\ ToolIdle

NextOrder ==
    \/ OrderStep /\ UNCHANGED <<dedupeVars, planVars, jobVars, gerberVars, strictVars, tabVars, coordVars, routeVars, stepVars, retractVars, polyVars, slotVars, millVars, throughVars, cutsVars, apertureVars, toolVars>>
    \/ OrderReturn /\ UNCHANGED <<dedupeVars, planVars, jobVars, gerberVars, strictVars, tabVars, coordVars, routeVars, stepVars, retractVars, polyVars, slotVars, millVars, throughVars, cutsVars, apertureVars, toolVars>>

SpecOrder == InitOrder /\ [][NextOrder]_vars

InitCoord ==
    /\ InitCoordVars
    /\ DedupeIdle
    /\ PlanIdle
    /\ JobIdle
    /\ GerberIdle
    /\ StrictIdle
    /\ TabIdle
    /\ OrderIdle
    /\ RouteIdle
    /\ StepIdle
    /\ RetractIdle
    /\ PolyIdle
    /\ SlotIdle
    /\ MillIdle
    /\ ThroughIdle
    /\ CutsIdle
    /\ ApertureIdle
    /\ ToolIdle

NextCoord ==
    \/ DecodeGerber /\ UNCHANGED <<dedupeVars, planVars, jobVars, gerberVars, strictVars, tabVars, orderVars, routeVars, stepVars, retractVars, polyVars, slotVars, millVars, throughVars, cutsVars, apertureVars, toolVars>>
    \/ DecodeExcellon /\ UNCHANGED <<dedupeVars, planVars, jobVars, gerberVars, strictVars, tabVars, orderVars, routeVars, stepVars, retractVars, polyVars, slotVars, millVars, throughVars, cutsVars, apertureVars, toolVars>>

SpecCoord == InitCoord /\ [][NextCoord]_vars

InitRoute ==
    /\ InitRouteVars
    /\ DedupeIdle
    /\ PlanIdle
    /\ JobIdle
    /\ GerberIdle
    /\ StrictIdle
    /\ TabIdle
    /\ OrderIdle
    /\ CoordIdle
    /\ StepIdle
    /\ RetractIdle
    /\ PolyIdle
    /\ SlotIdle
    /\ MillIdle
    /\ ThroughIdle
    /\ CutsIdle
    /\ ApertureIdle
    /\ ToolIdle

NextRoute ==
    \/ ExcellonLine /\ UNCHANGED <<dedupeVars, planVars, jobVars, gerberVars, strictVars, tabVars, orderVars, coordVars, stepVars, retractVars, polyVars, slotVars, millVars, throughVars, cutsVars, apertureVars, toolVars>>

SpecRoute == InitRoute /\ [][NextRoute]_vars

InitStep ==
    /\ InitStepVars
    /\ DedupeIdle
    /\ PlanIdle
    /\ JobIdle
    /\ GerberIdle
    /\ StrictIdle
    /\ TabIdle
    /\ OrderIdle
    /\ CoordIdle
    /\ RouteIdle
    /\ RetractIdle
    /\ PolyIdle
    /\ SlotIdle
    /\ MillIdle
    /\ ThroughIdle
    /\ CutsIdle
    /\ ApertureIdle
    /\ ToolIdle

NextStep ==
    \/ StepdownStep /\ UNCHANGED <<dedupeVars, planVars, jobVars, gerberVars, strictVars, tabVars, orderVars, coordVars, routeVars, retractVars, polyVars, slotVars, millVars, throughVars, cutsVars, apertureVars, toolVars>>
    \/ StepdownReturn /\ UNCHANGED <<dedupeVars, planVars, jobVars, gerberVars, strictVars, tabVars, orderVars, coordVars, routeVars, retractVars, polyVars, slotVars, millVars, throughVars, cutsVars, apertureVars, toolVars>>

SpecStep == InitStep /\ [][NextStep]_vars

InitRetract ==
    /\ InitRetractVars
    /\ DedupeIdle
    /\ PlanIdle
    /\ JobIdle
    /\ GerberIdle
    /\ StrictIdle
    /\ TabIdle
    /\ OrderIdle
    /\ CoordIdle
    /\ RouteIdle
    /\ StepIdle
    /\ PolyIdle
    /\ SlotIdle
    /\ MillIdle
    /\ ThroughIdle
    /\ CutsIdle
    /\ ApertureIdle
    /\ ToolIdle

NextRetract ==
    \/ WriteCut /\ UNCHANGED <<dedupeVars, planVars, jobVars, gerberVars, strictVars, tabVars, orderVars, coordVars, routeVars, stepVars, polyVars, slotVars, millVars, throughVars, cutsVars, apertureVars, toolVars>>

SpecRetract == InitRetract /\ [][NextRetract]_vars

InitPoly ==
    /\ InitPolyVars
    /\ DedupeIdle
    /\ PlanIdle
    /\ JobIdle
    /\ GerberIdle
    /\ StrictIdle
    /\ TabIdle
    /\ OrderIdle
    /\ CoordIdle
    /\ RouteIdle
    /\ StepIdle
    /\ RetractIdle
    /\ SlotIdle
    /\ MillIdle
    /\ ThroughIdle
    /\ CutsIdle
    /\ ApertureIdle
    /\ ToolIdle

NextPoly ==
    \/ PolyStart /\ UNCHANGED <<dedupeVars, planVars, jobVars, gerberVars, strictVars, tabVars, orderVars, coordVars, routeVars, stepVars, retractVars, slotVars, millVars, throughVars, cutsVars, apertureVars, toolVars>>
    \/ RampScan /\ UNCHANGED <<dedupeVars, planVars, jobVars, gerberVars, strictVars, tabVars, orderVars, coordVars, routeVars, stepVars, retractVars, slotVars, millVars, throughVars, cutsVars, apertureVars, toolVars>>
    \/ RampFallback /\ UNCHANGED <<dedupeVars, planVars, jobVars, gerberVars, strictVars, tabVars, orderVars, coordVars, routeVars, stepVars, retractVars, slotVars, millVars, throughVars, cutsVars, apertureVars, toolVars>>
    \/ RampWrite /\ UNCHANGED <<dedupeVars, planVars, jobVars, gerberVars, strictVars, tabVars, orderVars, coordVars, routeVars, stepVars, retractVars, slotVars, millVars, throughVars, cutsVars, apertureVars, toolVars>>

SpecPoly == InitPoly /\ [][NextPoly]_vars

InitSlot ==
    /\ InitSlotVars
    /\ DedupeIdle
    /\ PlanIdle
    /\ JobIdle
    /\ GerberIdle
    /\ StrictIdle
    /\ TabIdle
    /\ OrderIdle
    /\ CoordIdle
    /\ RouteIdle
    /\ StepIdle
    /\ RetractIdle
    /\ PolyIdle
    /\ MillIdle
    /\ ThroughIdle
    /\ CutsIdle
    /\ ApertureIdle
    /\ ToolIdle

NextSlot ==
    \/ SlotOffsetsStart /\ UNCHANGED <<dedupeVars, planVars, jobVars, gerberVars, strictVars, tabVars, orderVars, coordVars, routeVars, stepVars, retractVars, polyVars, millVars, throughVars, cutsVars, apertureVars, toolVars>>
    \/ SlotOffsetsStep /\ UNCHANGED <<dedupeVars, planVars, jobVars, gerberVars, strictVars, tabVars, orderVars, coordVars, routeVars, stepVars, retractVars, polyVars, millVars, throughVars, cutsVars, apertureVars, toolVars>>
    \/ SlotOffsetsReturn /\ UNCHANGED <<dedupeVars, planVars, jobVars, gerberVars, strictVars, tabVars, orderVars, coordVars, routeVars, stepVars, retractVars, polyVars, millVars, throughVars, cutsVars, apertureVars, toolVars>>

SpecSlot == InitSlot /\ [][NextSlot]_vars

InitMill ==
    /\ InitMillVars
    /\ DedupeIdle
    /\ PlanIdle
    /\ JobIdle
    /\ GerberIdle
    /\ StrictIdle
    /\ TabIdle
    /\ OrderIdle
    /\ CoordIdle
    /\ RouteIdle
    /\ StepIdle
    /\ RetractIdle
    /\ PolyIdle
    /\ SlotIdle
    /\ ThroughIdle
    /\ CutsIdle
    /\ ApertureIdle
    /\ ToolIdle

NextMill ==
    \/ MillHoleStart /\ UNCHANGED <<dedupeVars, planVars, jobVars, gerberVars, strictVars, tabVars, orderVars, coordVars, routeVars, stepVars, retractVars, polyVars, slotVars, throughVars, cutsVars, apertureVars, toolVars>>
    \/ MillHoleRing /\ UNCHANGED <<dedupeVars, planVars, jobVars, gerberVars, strictVars, tabVars, orderVars, coordVars, routeVars, stepVars, retractVars, polyVars, slotVars, throughVars, cutsVars, apertureVars, toolVars>>
    \/ MillHoleRingsDone /\ UNCHANGED <<dedupeVars, planVars, jobVars, gerberVars, strictVars, tabVars, orderVars, coordVars, routeVars, stepVars, retractVars, polyVars, slotVars, throughVars, cutsVars, apertureVars, toolVars>>
    \/ MillHoleWrite /\ UNCHANGED <<dedupeVars, planVars, jobVars, gerberVars, strictVars, tabVars, orderVars, coordVars, routeVars, stepVars, retractVars, polyVars, slotVars, throughVars, cutsVars, apertureVars, toolVars>>

SpecMill == InitMill /\ [][NextMill]_vars

InitThrough ==
    /\ InitThroughVars
    /\ DedupeIdle
    /\ PlanIdle
    /\ JobIdle
    /\ GerberIdle
    /\ StrictIdle
    /\ TabIdle
    /\ OrderIdle
    /\ CoordIdle
    /\ RouteIdle
    /\ StepIdle
    /\ RetractIdle
    /\ PolyIdle
    /\ SlotIdle
    /\ MillIdle
    /\ CutsIdle
    /\ ApertureIdle
    /\ ToolIdle

NextThrough ==
    \/ RunDrillHoles /\ UNCHANGED <<dedupeVars, planVars, jobVars, gerberVars, strictVars, tabVars, orderVars, coordVars, routeVars, stepVars, retractVars, polyVars, slotVars, millVars, cutsVars, apertureVars, toolVars>>
    \/ RunOutlineHoles /\ UNCHANGED <<dedupeVars, planVars, jobVars, gerberVars, strictVars, tabVars, orderVars, coordVars, routeVars, stepVars, retractVars, polyVars, slotVars, millVars, cutsVars, apertureVars, toolVars>>

SpecThrough == InitThrough /\ [][NextThrough]_vars

InitCuts ==
    /\ InitCutsVars
    /\ DedupeIdle
    /\ PlanIdle
    /\ JobIdle
    /\ GerberIdle
    /\ StrictIdle
    /\ TabIdle
    /\ OrderIdle
    /\ CoordIdle
    /\ RouteIdle
    /\ StepIdle
    /\ RetractIdle
    /\ PolyIdle
    /\ SlotIdle
    /\ MillIdle
    /\ ThroughIdle
    /\ ApertureIdle
    /\ ToolIdle

NextCuts ==
    \/ ThroughCuts /\ UNCHANGED <<dedupeVars, planVars, jobVars, gerberVars, strictVars, tabVars, orderVars, coordVars, routeVars, stepVars, retractVars, polyVars, slotVars, millVars, throughVars, apertureVars, toolVars>>

SpecCuts == InitCuts /\ [][NextCuts]_vars

InitAperture ==
    /\ InitApertureVars
    /\ DedupeIdle
    /\ PlanIdle
    /\ JobIdle
    /\ GerberIdle
    /\ StrictIdle
    /\ TabIdle
    /\ OrderIdle
    /\ CoordIdle
    /\ RouteIdle
    /\ StepIdle
    /\ RetractIdle
    /\ PolyIdle
    /\ SlotIdle
    /\ MillIdle
    /\ ThroughIdle
    /\ CutsIdle
    /\ ToolIdle

NextAperture ==
    \/ ApertureLine /\ UNCHANGED <<dedupeVars, planVars, jobVars, gerberVars, strictVars, tabVars, orderVars, coordVars, routeVars, stepVars, retractVars, polyVars, slotVars, millVars, throughVars, cutsVars, toolVars>>

SpecAperture == InitAperture /\ [][NextAperture]_vars

InitTool ==
    /\ InitToolVars
    /\ DedupeIdle
    /\ PlanIdle
    /\ JobIdle
    /\ GerberIdle
    /\ StrictIdle
    /\ TabIdle
    /\ OrderIdle
    /\ CoordIdle
    /\ RouteIdle
    /\ StepIdle
    /\ RetractIdle
    /\ PolyIdle
    /\ SlotIdle
    /\ MillIdle
    /\ ThroughIdle
    /\ CutsIdle
    /\ ApertureIdle

NextTool ==
    \/ ToolLine /\ UNCHANGED <<dedupeVars, planVars, jobVars, gerberVars, strictVars, tabVars, orderVars, coordVars, routeVars, stepVars, retractVars, polyVars, slotVars, millVars, throughVars, cutsVars, apertureVars>>

SpecTool == InitTool /\ [][NextTool]_vars

\* -------------------------------------------------------------------
\* C1: for tol > 0 every two distinct returned records are farther apart
\* than tol, also after a larger hole has replaced a kept centre.
C1_PairwiseApart ==
    tol_xy > 0 =>
        \A i, j \in 1..Len(out) :
            i # j => Dist2(out[i], out[j]) > tol_xy * tol_xy

\* C2: every returned record is one input hole (centre and diameter), the
\* output is no longer than the input, the largest input diameter survives,
\* and a kept record only ever changes into the hole being processed, which
\* is within tol of it and strictly larger.
Processed == {holes[j] : j \in 1..(k - 1)}

MaxDiam(S) == CHOOSE m \in {h.d : h \in S} : \A h \in S : h.d <= m

C2_Inv ==
    /\ \A i \in 1..Len(out) : out[i] \in Processed
    /\ Len(out) <= k - 1
    /\ k > 1 => MaxDiam(Processed) = MaxDiam({out[i] : i \in 1..Len(out)})

C2_Step ==
    /\ Len(out') >= Len(out)
    /\ \A i \in 1..Len(out) :
          out'[i] # out[i] =>
              /\ out'[i] = holes[k]
              /\ holes[k].d > out[i].d
              /\ Dist2(holes[k], out[i]) <= tol_xy * tol_xy

C2_DedupeKeepsLargest == []C2_Inv /\ [][C2_Step]_vars

\* A larger hole has replaced a kept record and moved its centre to
\* another bin.
C2_Witness ==
    /\ tol_xy > 0
    /\ k = Len(holes) + 1
    /\ \E i \in 1..Len(out) : grid[i] # cell(out[i])

\* -------------------------------------------------------------------
\* C3: when the planner returns "ok" for a non-empty hole list, every hole
\* is assigned to a drill of the returned plan that fits it (diameter <=
\* h + tol) and no drill of the plan that fits it is larger, also after
\* reduction steps; _assign_holes_to_drills on the returned plan puts each
\* hole under that same drill.
PlannedSet == {ret.planned[j] : j \in 1..Len(ret.planned)}

FitsHole(b, n) == b.diameter <= hole_ds[n] + tol

Returned == plan_pc \in {"done", "assigned"}

C4_PlanShape ==
    (Returned /\ ret.level = "ok") =>
        /\ Len(ret.planned) <= max_bits
        /\ \A i, j \in 1..Len(ret.planned) :
              i # j => ret.planned[i].diameter # ret.planned[j].diameter
        /\ \A j \in 1..Len(ret.planned) :
              \E n \in HoleIdx : drills[assign_idx[n]] = ret.planned[j]
        /\ \A i, j \in 1..Len(ret.planned) :
              i < j => ret.planned[i].diameter >= ret.planned[j].diameter

\* An "ok" plan of two drills or more from candidates that hold two bits
\* of one diameter.
C4_Witness ==
    /\ Returned
    /\ ret.level = "ok"
    /\ Len(ret.planned) >= 2
    /\ \E i, j \in 1..Len(candidate_bits) :
          i # j /\ candidate_bits[i].diameter = candidate_bits[j].diameter

\* C5: when the planner returns "error" for non-empty holes and candidates,
\* no set of at most max_bits candidates gives every hole a drill with
\* diameter <= h + tol.
Covers(S) ==
    \A n \in HoleIdx : \E i \in S : candidate_bits[i].diameter <= hole_ds[n] + tol

C5_ErrorMeansInfeasible ==
    (Returned /\ ret.level = "error" /\ hole_ds # <<>> /\ candidate_bits # <<>>) =>
        ~ \E S \in SUBSET (1..Len(candidate_bits)) :
              Cardinality(S) <= max_bits /\ Covers(S)

\* The reduction loop has reported impossibility.
C5_Witness ==
    /\ Returned
    /\ ret.level = "error"
    /\ hole_ds # <<>>
    /\ ret.msg = "Impossible to stay within max drills"

\* ===================================================================
\* Claims about run_job and the output files
\* ===================================================================

\* The preflight computed for the picked board reports impossibility.
Impossible ==
    /\ prefix # ""
    /\ inputs.plan # "raises"
    /\ \/ inputs.plan = "error"
       \/ inputs.router_d > 0 /\ \E w \in inputs.slot_ws : inputs.router_d > w

\* -------------------------------------------------------------------
\* C6: when the preflight of the picked board reports impossibility (plan
\* error, or router wider than the narrowest slot), no step of the program,
\* run_job included, saves the settings or changes any .nc file, and no job
\* is started; conversely a job has only been run on a board whose preflight
\* does not report impossibility.
C6_RefusedJobWritesNothing ==
    /\ [][Impossible => (saves' = saves /\ files' = files /\ jobs' = jobs)]_vars
    /\ [](jobs > 0 => ~Impossible)

\* run_job was called on an impossible board and refused.
C6_Witness ==
    /\ Impossible
    /\ result = "refused"
    /\ preflight_level = "error"
    /\ saves = 0
    /\ files = DirFiles(inputs.dir)

\* ---- helpers over one file
CombinedLines == files["all.nc"].lines

Count(f, cmd) == Cardinality({i \in 1..Len(f) : f[i].cmd = cmd})

SectionIdx(f, op) == {i \in 1..Len(f) : f[i].src = op}

LastOf(S) == CHOOSE m \in S : \A i \in S : i <= m

FirstOf(S) == CHOOSE m \in S : \A i \in S : m <= i

\* -------------------------------------------------------------------
\* C7: after a combined-mode job ran to completion, all.nc begins with the
\* header lines, which form one block holding the preamble once; M2 occurs
\* once and is the last line; every operation's lines end with retract to
\* travel Z, M5, rapid to park and hold no M2; nothing of what the file held
\* before the job is left.
C7_CombinedFileLegal ==
    (combined /\ result = "done") =>
        LET f == CombinedLines
            hdr == {i \in 1..Len(f) : f[i].src \in {"header", "probe"}}
        IN  /\ hdr # {}
            /\ hdr = 1..Cardinality(hdr)
            /\ \A c \in {"G21", "G90", "G17", "G94", "G54", "G92.1"} : Count(f, c) = 1
            /\ Count(f, "M2") = 1
            /\ f[Len(f)].cmd = "M2"
            /\ \A i \in 1..Len(f) : f[i].src # "old"
            /\ \A op \in OpKeys :
                  SectionIdx(f, op) # {} =>
                      LET m == LastOf(SectionIdx(f, op))
                      IN  /\ m >= 3
                          /\ <<f[m - 2], f[m - 1], f[m]>>
                               = Lines(op, <<"G0 Ztravel", "M5", "G0 XYpark">>)
                          /\ \A i \in SectionIdx(f, op) : f[i].cmd # "M2"

\* A completed combined job over a directory that held an old all.nc, with
\* a probe block in the header and at least two operation sections.
C7_Witness ==
    /\ combined
    /\ result = "done"
    /\ inputs.dir = "stale"
    /\ probe_on_start
    /\ SectionIdx(CombinedLines, "copper_isolation") # {}
    /\ SectionIdx(CombinedLines, "drilling") # {}

\* -------------------------------------------------------------------
\* C8: a job that completes right after the same job completed leaves every
\* output file with the content the first run gave it.
C8_SecondRunSameFiles ==
    [][(jobs >= 1 /\ jobs' = jobs + 1 /\ result = "done" /\ result' = "done")
          => files' = files]_vars

\* ---- helpers for the run order
OpIndex(op) == CHOOSE i \in 1..Len(OPS) : OPS[i] = op

\* -------------------------------------------------------------------
\* C9: the operations a job calls are called in OPS order, each at most
\* once, and a completed job called exactly the selected runnable ones; in
\* all.nc the lines of the operations appear in OPS order, so each
\* operation's lines are contiguous.
C9_FixedOrder ==
    LET f == CombinedLines
        IsOpLine(l) == l.src \in OpKeys
        opLines == SelectSeq(f, IsOpLine)
    IN  /\ \A i \in 1..(Len(ran) - 1) : OpIndex(ran[i]) < OpIndex(ran[i + 1])
        /\ result = "done" => {ran[i] : i \in 1..Len(ran)} = checked \cap OpKeys
        /\ \A i \in 1..(Len(opLines) - 1) :
              OpIndex(opLines[i].src) <= OpIndex(opLines[i + 1].src)
        /\ \A op \in OpKeys :
              SectionIdx(f, op) # {} =>
                  \A i \in FirstOf(SectionIdx(f, op))..LastOf(SectionIdx(f, op)) :
                      f[i].src = op

\* A completed combined job whose selection lists drilling before
\* soldermask_clear, the reverse of the run order, both having written.
C9_Witness ==
    /\ combined
    /\ result = "done"
    /\ \E i, j \in 1..Len(selected_ops) :
          i < j /\ selected_ops[i] = "drilling" /\ selected_ops[j] = "soldermask_clear"
    /\ SectionIdx(CombinedLines, "drilling") # {}
    /\ SectionIdx(CombinedLines, "soldermask_clear") # {}

\* ---- helpers for the tool change
IsG1(l) == l.cmd \in {"G1 Z", "G1 XY", "G1 Z2 F100"}

IsM3(l) == l.cmd \in {"M3", "S M3"}

\* The commands a section must open with.
ExpectedToolchange ==
    <<"G0 Ztc", "M5", "G0 XYpark", "; message", "M0", IF rpm > 0 THEN "S M3" ELSE "M3">>
    \o (IF spindle_warmup_s > 0 THEN <<"G4 P">> ELSE <<>>)
    \o <<"G0 Ztravel">>

\* Line i of f opens an operation section.
OpensSection(f, i) ==
    /\ f[i].src \in OpKeys
    /\ i = 1 \/ f[i - 1].src # f[i].src \/ f[i - 1].cmd = "M2"

SectionsOpenWithToolchange ==
    \A fn \in FileNames :
        LET f == files[fn].lines
        IN  \A i \in 1..Len(f) :
                OpensSection(f, i) =>
                    /\ i + Len(ExpectedToolchange) - 1 <= Len(f)
                    /\ \A n \in 1..Len(ExpectedToolchange) :
                          f[i + n - 1] = Line(f[i].src, ExpectedToolchange[n])

\* Line i of f has an M3 before it with no M5 in between: the last spindle
\* command before line i is an M3.
SpindleOnAt(f, i) ==
    LET spindle == {j \in 1..(i - 1) : IsM3(f[j]) \/ f[j].cmd = "M5"}
    IN  spindle # {} /\ IsM3(f[LastOf(spindle)])

\* -------------------------------------------------------------------
\* C10 as stated: every operation section opens with the tool-change
\* sequence in the given order, and every G1 line of every output file has
\* an M3 before it with no M5 between the two.
C10_SpindleOnBeforeEveryG1 ==
    /\ SectionsOpenWithToolchange
    /\ \A fn \in FileNames :
          LET f == files[fn].lines
          IN  \A i \in 1..Len(f) : IsG1(f[i]) => SpindleOnAt(f, i)

\* C10, amended: every operation section opens with the tool-change
\* sequence in the given order, and every G1 line other than the user's
\* probe lines in the header has an M3 before it with no M5 between the two.
C10_SpindleOnBeforeOperationG1 ==
    /\ SectionsOpenWithToolchange
    /\ \A fn \in FileNames :
          LET f == files[fn].lines
          IN  \A i \in 1..Len(f) : (IsG1(f[i]) /\ f[i].src # "probe") => SpindleOnAt(f, i)

\* A file written by a job with rpm and warm-up set, holding a G1 among the
\* probe lines of its header and a G1 of an operation after a tool change.
C10_Witness ==
    /\ rpm > 0
    /\ spindle_warmup_s > 0
    /\ jobs > 0
    /\ \E fn \in FileNames :
          LET f == files[fn].lines
          IN  /\ \E i \in 1..Len(f) : IsG1(f[i]) /\ f[i].src = "probe"
              /\ \E i \in 1..Len(f) : IsG1(f[i]) /\ f[i].src \in OpKeys /\ SpindleOnAt(f, i)

\* ===================================================================
\* Claims about the Gerber and Excellon parsers
\* ===================================================================

\* The polarity in force at command i of the file.
PolarityAt(i) ==
    LET lp == {j \in 1..(i - 1) : glines[j].op # "obj"}
    IN  IF lp = {} THEN "D"
        ELSE IF glines[LastOf(lp)].op = "LPD" THEN "D" ELSE "C"

\* -------------------------------------------------------------------
\* C11: once the file is parsed, every cell of a dark object that no clear
\* object later in the file covers is in the composed image, whatever clear
\* objects came before that dark object.
C11_ClearRemovesOnlyEarlierDark ==
    line_no = Len(glines) =>
        \A i \in 1..Len(glines) :
            (glines[i].op = "obj" /\ PolarityAt(i) = "D") =>
                \A c \in glines[i].cells :
                    (\A j \in (i + 1)..Len(glines) :
                        ~(glines[j].op = "obj" /\ PolarityAt(j) = "C" /\ c \in glines[j].cells))
                    => c \in _compose_dark_clear(dark_geoms, clear_geoms)

\* -------------------------------------------------------------------
\* C12: a finished parse of an input holding at least one warning condition
\* ended with the parser's parse error when strict is set; without strict it
\* returned a result after warning about every condition.
C12_StrictRaisesOnEveryWarning ==
    (outcome \notin {"parsing", "idle"} /\ conds # <<>>) =>
        IF strict THEN outcome = "ParseError"
        ELSE outcome = "returned" /\ warnings = conds

\* -------------------------------------------------------------------
\* Claims about the board outline
\* -------------------------------------------------------------------

\* C13: once the tab placement loop is over, with tabs enabled the tab
\* centres are k * 0.2 * length for k = 1..5, the last one at length; with
\* tabs disabled there is none.
C13_FiveTabs ==
    walk_pc \in {"walk", "done"} =>
        IF tabs_enabled
        THEN tab_positions = [n \in 1..5 |-> n * tab_spacing]
        ELSE tab_positions = <<>>

\* C14: after the walk, every position strictly inside a piece cut by the
\* walk loop was cut at the tab depth exactly when it lies within 0.5 mm of
\* a tab centre, and at full depth otherwise.
C14_TabDepthOnlyInWindow ==
    walk_pc = "done" =>
        \A i \in 1..Len(cuts) :
            cuts[i].depth # "ramp" =>
                \A a \in (cuts[i].from + 1)..(cuts[i].to - 1) :
                    cuts[i].depth = (IF is_in_tab(a) THEN "tab" ELSE "full")

\* -------------------------------------------------------------------
\* Claims about order_lines_nearest
\* -------------------------------------------------------------------

\* The bijections from the positions of s onto themselves.
Perms(n) == {f \in [1..n -> 1..n] : \A i, j \in 1..n : i # j => f[i] # f[j]}

\* out is inp rearranged, each polyline as it was or reversed (as it was
\* when reversal is not allowed).
IsReorderOf(outp, inp, rev) ==
    /\ Len(outp) = Len(inp)
    /\ \E f \in Perms(Len(inp)) :
        \A i \in 1..Len(inp) :
            \/ outp[i] = inp[f[i]]
            \/ rev /\ outp[i] = Reverse(inp[f[i]])

\* C15: the placed and the unplaced polylines together are always the
\* input's polylines of two or more coordinates, each once, the placed ones
\* as they were or exactly reversed (as they were when allow_reverse is
\* false); every pass of the loop places one, and the result is that
\* rearrangement of all of them.
C15_PermutationUpToReversal ==
    /\ order_pc \in {"loop", "done"} =>
        /\ IsReorderOf(placed \o remaining, ValidLines(lines), allow_reverse)
        /\ \A i \in 1..Len(remaining) :
             \E j \in 1..Len(lines) : remaining[i] = lines[j]
    /\ order_pc = "done" =>
        /\ remaining = <<>>
        /\ IsReorderOf(placed, ValidLines(lines), allow_reverse)

\* Two polylines were placed, the second one reversed and ahead of an
\* earlier polyline of the input.
C15_Witness ==
    /\ order_pc = "done"
    /\ Len(placed) = 2
    /\ allow_reverse
    /\ Len(lines) = 2 /\ Len(lines[2]) = 3
    /\ placed[1] = Reverse(lines[2])
    /\ placed[1] # lines[2]
    /\ placed[2] = lines[1]

\* sum over the paths of the distance from the cursor to the path's first
\* point, the cursor moving to its last point
RECURSIVE Travel(_, _, _)
Travel(ps, c, i) ==
    IF i > Len(ps) THEN 0
    ELSE Abs(c - ps[i][1]) + Travel(ps, ps[i][Len(ps[i])], i + 1)

\* C16: the travel of the returned order is at most the travel of the input
\* order, unreversed, from the same start point.
C16_TravelNoWorseThanInputOrder ==
    order_pc = "done" =>
        Travel(placed, start_xy, 1) <= Travel(ValidLines(lines), start_xy, 1)

\* -------------------------------------------------------------------
\* Claims about the coordinate decoders
\* -------------------------------------------------------------------

\* The fixed-width string of the token under the format: padded with "0"
\* on the left (L) or on the right (T), or its rightmost digits.
FixedWidth ==
    LET n == int_d + dec_d
        s == token.digits
    IN  [i \in 1..n |->
            IF Len(s) >= n THEN s[Len(s) - n + i]
            ELSE IF zero_mode = "L"
                 THEN (IF i <= n - Len(s) THEN 0 ELSE s[i - (n - Len(s))])
                 ELSE (IF i <= Len(s) THEN s[i] ELSE 0)]

\* The digit at place i (from the left) of n written in w digits.
DigitOf(n, w, i) == (n \div Pow10(w - i)) % 10

\* v times 10^dec_d, without its sign
Scaled(v) == v.num * Pow10(dec_d - v.exp)

\* v is the number FixedWidth reads as, with the token's sign, and writing
\* it back in fixed width gives FixedWidth again.
RoundTrips(v) ==
    /\ v.exp <= dec_d
    /\ v.neg = token.neg
    /\ Scaled(v) = int(FixedWidth)
    /\ [i \in 1..(int_d + dec_d) |-> DigitOf(Scaled(v), int_d + dec_d, i)] = FixedWidth

\* C17 as stated: under every format both decoders return the number the
\* fixed-width string reads as, and the same number.
C17_RoundTripAnyFormat ==
    /\ gerber_val # NoVal => RoundTrips(gerber_val)
    /\ excellon_val # NoVal => RoundTrips(excellon_val)
    /\ (gerber_val # NoVal /\ excellon_val # NoVal) => gerber_val = excellon_val

\* C17, amended: under every format with int_digits + dec_digits >= 1 both
\* decoders return the number the fixed-width string reads as; under every
\* format they return the same number.
C17_RoundTrip ==
    /\ (gerber_val # NoVal /\ int_d + dec_d >= 1) => RoundTrips(gerber_val)
    /\ (excellon_val # NoVal /\ int_d + dec_d >= 1) => RoundTrips(excellon_val)
    /\ (gerber_val # NoVal /\ excellon_val # NoVal) => gerber_val = excellon_val

\* Both decoders have run on a negative token shorter than the format, with
\* leading zeros omitted, and on a format with both kinds of digits.
C17_Witness ==
    /\ gerber_val # NoVal /\ excellon_val # NoVal
    /\ token.neg /\ Len(token.digits) < int_d + dec_d
    /\ zero_mode = "L" /\ int_d > 0 /\ dec_d > 0
    /\ token.digits[1] # 0
    /\ gerber_val.num > 0

\* -------------------------------------------------------------------
\* Claims about Excellon routing
\* -------------------------------------------------------------------

\* Read off the file, for line i: the last line before i that selects a
\* tool, and the tool it selects (0 when there is none).
LastSel(i) ==
    LET S == {u \in 1..(i - 1) : ex_lines[u] \in {"T1", "T2"}}
    IN  IF S = {} THEN 0 ELSE CHOOSE u \in S : \A m \in S : m <= u

SelectedAt(i) == IF LastSel(i) = 0 THEN 0 ELSE ToolOf(ex_lines[LastSel(i)])

\* Line i is an XY line for a selected, defined tool.
IsHit(i) == ex_lines[i] = "XY" /\ SelectedAt(i) \in ex_tools

\* Line i lies after an M15 with no M16 since.
InRouteBlock(i) ==
    \E m \in 1..(i - 1) :
        ex_lines[m] = "M15" /\ \A u \in (m + 1)..(i - 1) : ex_lines[u] # "M16"

\* Lines i < j are consecutive routed XY lines of one tool in one block: no
\* XY line, M16 or tool selection lies between them.
Joined(i, j) ==
    /\ i < j
    /\ IsHit(i) /\ IsHit(j)
    /\ InRouteBlock(i) /\ InRouteBlock(j)
    /\ \A u \in (i + 1)..(j - 1) : ex_lines[u] = "M15"

SlotSet == {ex_slots[n] : n \in 1..Len(ex_slots)}

\* C18: when the file is read, the slots are exactly one segment for every
\* two consecutive XY lines of a defined, selected tool inside one route
\* block, joining their positions in file order with the tool's diameter as
\* width; the XY lines of route blocks are no holes, and every XY line of a
\* defined, selected tool outside the route blocks is exactly one hole of
\* that tool; outside route mode no chain start is kept.
C18_RouteSlots ==
    /\ (~route_mode) => last_route_xy = 0
    /\ ex_no = Len(ex_lines) =>
        /\ SlotSet = {[p1 |-> i, p2 |-> j, w |-> ToolDiameter(SelectedAt(j))] :
                        <<i, j>> \in {q \in (1..Len(ex_lines)) \X (1..Len(ex_lines)) :
                                        Joined(q[1], q[2])}}
        /\ Len(ex_slots) = Cardinality(SlotSet)
        /\ \A n \in 1..(Len(ex_slots) - 1) : ex_slots[n].p2 <= ex_slots[n + 1].p1
        /\ \A t \in ExTools :
            tool_holes[t] =
                LET Hole(i) == IsHit(i) /\ ~InRouteBlock(i) /\ SelectedAt(i) = t
                IN  SelectSeq([i \in 1..Len(ex_lines) |-> i], Hole)

\* A file is read in which three XY lines of T1 inside one route block gave
\* two segments, and an XY line after the M16 gave a hole.
C18_Witness ==
    /\ ex_no = Len(ex_lines)
    /\ Len(ex_slots) = 2
    /\ ex_slots[1].p2 = ex_slots[2].p1
    /\ ex_slots[1].w = 1
    /\ ex_lines[Len(ex_lines)] = "M16"

\* -------------------------------------------------------------------
\* Claims about _stepdown_list
\* -------------------------------------------------------------------

\* The list built so far is strictly increasing, its n-th element is
\* min(n * s, D) and no two neighbours (nor 0 and the first) are more than
\* s apart, s being the given step when positive and 0.5 mm otherwise.
StepdownShape ==
    LET s == EffectiveStep(stepdown)
    IN  \A n \in 1..Len(sd_out) :
            /\ sd_out[n] = Min(n * s, full_depth)
            /\ sd_out[n] > (IF n = 1 THEN 0 ELSE sd_out[n - 1])
            /\ sd_out[n] - (IF n = 1 THEN 0 ELSE sd_out[n - 1]) <= s

\* C19 as stated: the list has the shape above; for D > 0 its last element
\* is exactly D; for D <= 0 it is empty.
C19_StepdownEndsAtDepth ==
    /\ sd_pc \in {"loop", "done"} => StepdownShape
    /\ sd_pc = "done" =>
        IF full_depth > 0
        THEN sd_out # <<>> /\ sd_out[Len(sd_out)] = full_depth
        ELSE sd_out = <<>>

\* C19, amended: the list has the shape above; for D > 1e-9 its last
\* element is at least D - 1e-9 and at most D, and exactly D unless a
\* multiple of s lies within 1e-9 below D; for D <= 1e-9 it is empty.
C19_StepdownEndsNearDepth ==
    /\ sd_pc \in {"loop", "done"} => StepdownShape
    /\ sd_pc = "done" =>
        IF full_depth > EPS
        THEN /\ sd_out # <<>>
             /\ sd_out[Len(sd_out)] >= full_depth - EPS
             /\ sd_out[Len(sd_out)] <= full_depth
             /\ (\A n \in 1..Len(sd_out) :
                    ~(full_depth - EPS <= n * EffectiveStep(stepdown)
                      /\ n * EffectiveStep(stepdown) < full_depth))
                => sd_out[Len(sd_out)] = full_depth
        ELSE sd_out = <<>>

\* A finished list of three or more depths whose last pass was clamped to
\* the full depth.
C19_Witness ==
    /\ sd_pc = "done"
    /\ Len(sd_out) >= 3
    /\ sd_out[Len(sd_out)] = full_depth
    /\ Len(sd_out) * EffectiveStep(stepdown) > full_depth
    /\ full_depth > 1000000000

\* -------------------------------------------------------------------
\* Claims about missing input files
\* -------------------------------------------------------------------

\* The lines operations of this session wrote, over all files.
ToolpathWritten ==
    \E f \in FileNames : \E i \in 1..Len(files[f].lines) : files[f].lines[i].src \in OpKeys

\* C20: a job that ran with a board outline, silkscreen or drill file
\* missing and the top copper present did not fail, and ran every selected
\* operation; a job that ran with the top copper missing failed and wrote
\* no toolpath.
C20_OnlyMissingCopperIsFatal ==
    (jobs > 0 /\ inputs.has_bits) =>
        /\ (inputs.copper_ok /\ inputs.missing # {}) =>
              /\ result # "failed"
              /\ (result = "done" => ran = RunOrder(OpsToRun(selected_ops)))
        /\ (~inputs.copper_ok /\ result \in {"failed", "done"}) =>
              /\ result = "failed"
              /\ ~ToolpathWritten

\* -------------------------------------------------------------------
\* C21: in every operation (copper isolation, soldermask clear, drilling,
\* slots, milled holes, outline, silkscreen) the retract height written
\* between cuts is the configured job key safe_z, and 5.0 only when the
\* key is absent.
\* -------------------------------------------------------------------
C21_RetractIsConfiguredSafeZ ==
    \A i \in 1..Len(retracts) :
        retracts[i].z = (IF job_safe_z.present THEN job_safe_z.v ELSE 5)

\* -------------------------------------------------------------------
\* C22: for any polyline and ramp_len > 0 the polyline writer emits one
\* ramp move whose target lies at arc length min(ramp_len, path length),
\* and every vertex of the input is the target of an emitted move, in
\* path order, also when ramp_len is longer than the first segment or the
\* whole path.
\* -------------------------------------------------------------------
C22_ArcTo(q, n) ==
    IF n <= 1 THEN 0
    ELSE LET f[j \in 1..n] ==
                 IF j = 1 THEN 0
                 ELSE f[j - 1] + Abs(q[j][1] - q[j - 1][1]) + Abs(q[j][2] - q[j - 1][2])
         IN  f[n]

\* the arc lengths at which point p lies on the polyline q
C22_ArcsOf(q, p) ==
    {C22_ArcTo(q, j) + Abs(p[1] - q[j][1]) + Abs(p[2] - q[j][2]) :
        j \in {i \in 1..(Len(q) - 1) :
                 /\ Min(q[i][1], q[i + 1][1]) <= p[1] /\ p[1] <= Max(q[i][1], q[i + 1][1])
                 /\ Min(q[i][2], q[i + 1][2]) <= p[2] /\ p[2] <= Max(q[i][2], q[i + 1][2])}}

\* the targets of gm contain the points of q as a subsequence
C22_VisitsInOrder(gm, q) ==
    \E f \in [1..Len(q) -> 1..Len(gm)] :
        /\ \A j \in 1..Len(q) : gm[f[j]].p = q[j]
        /\ \A j \in 1..(Len(q) - 1) : f[j] <= f[j + 1]

C22_Ramped == poly_pc = "done" /\ poly_ramp_len > 0

C22_OneRampMove ==
    C22_Ramped => Cardinality({j \in 1..Len(gmoves) : gmoves[j].z = "depth"}) = 1

C22_RampTargetArc ==
    C22_Ramped =>
        \A j \in 1..Len(gmoves) :
            gmoves[j].z = "depth" =>
                Min(poly_ramp_len, C22_ArcTo(poly_pts, Len(poly_pts)))
                    \in C22_ArcsOf(poly_pts, gmoves[j].p)

C22_VerticesVisited == C22_Ramped => C22_VisitsInOrder(gmoves, poly_pts)

C22_RampStaysOnPath == C22_OneRampMove /\ C22_RampTargetArc /\ C22_VerticesVisited

\* -------------------------------------------------------------------
\* C23 (as stated): for slot width w and tool diameter t with t < w,
\* _slot_offsets returns a list that starts with 0, contains -o whenever
\* it contains o, has every |o| <= (w - t)/2, reaches max |o| = (w - t)/2
\* exactly and has consecutive magnitudes at most 0.6*t apart; for t >= w
\* it returns [0].
\* -------------------------------------------------------------------
C23_Offs == {so_out[j] : j \in 1..Len(so_out)}

C23_Shape ==
    /\ Len(so_out) >= 1 /\ so_out[1] = 0
    /\ \A o \in C23_Offs : -o \in C23_Offs
    /\ \A o \in C23_Offs : Abs(o) <= SlotOff(slot_w, tool_d)
    /\ \A j \in 1..(Len(so_out) - 1) :
          Abs(so_out[j + 1]) - Abs(so_out[j]) <= SlotStep(tool_d)

C23_OffsetsFillSlot ==
    (so_pc = "done" /\ tool_d > 0) =>
        IF tool_d < slot_w
        THEN /\ C23_Shape
             /\ SlotOff(slot_w, tool_d) \in C23_Offs
        ELSE so_out = <<0>>

\* C23 (amended): for a tool of diameter t > 0 and t < 0.999*w the list
\* starts with 0, is symmetric, stays within (w - t)/2, reaches a magnitude
\* of at least (w - t)/2 - 1e-9 and has consecutive magnitudes at most
\* 0.6*t apart; for t >= 0.999*w it is [0].
C23_OffsetsFillSlotWithinTolerance ==
    (so_pc = "done" /\ tool_d > 0) =>
        IF ~FillsSlot(tool_d, slot_w)
        THEN /\ C23_Shape
             /\ \E o \in C23_Offs : o >= SlotOff(slot_w, tool_d) - EPS
        ELSE so_out = <<0>>

\* a slot wider than the tool by more than one step: several offsets a side
C23_Witness ==
    /\ so_pc = "done"
    /\ tool_d > 0 /\ ~FillsSlot(tool_d, slot_w)
    /\ Len(so_out) >= 5
    /\ SlotOff(slot_w, tool_d) \in C23_Offs

\* -------------------------------------------------------------------
\* C24: for hole diameter d and tool diameter t with d > 1.02*t, _mill_hole
\* cuts rings at exactly the radii r0 - k*0.6*t (k = 0, 1, 2, ...) that
\* are greater than 0.25*t, r0 = (d - t)/2, in decreasing order, the whole
\* ring set once per stepdown depth with depths increasing; for
\* d <= 1.02*t it writes nothing.
\* -------------------------------------------------------------------
C24_Radii ==
    {rr \in {(mh_hole_d - mh_tool_d) \div 2 - u * ((3 * mh_tool_d) \div 5) : u \in 0..(mh_hole_d + 1)} :
        4 * rr > mh_tool_d}

\* the writes split into maximal runs of equal depth
C24_RunStarts ==
    {j \in 1..Len(mh_writes) : j = 1 \/ mh_writes[j - 1].z # mh_writes[j].z}

C24_RunOf(j) ==
    {i \in j..Len(mh_writes) : \A h \in j..i : mh_writes[h].z = mh_writes[j].z}

C25_Uncut == {i \in 1..Len(th_holes) : i \notin drilled /\ i \notin milled}

C25_CutTwice == {i \in 1..Len(th_holes) : i \in drilled /\ i \in milled}

C25_NoHoleUncut == th_ran = {"drilling", "board_outline"} => C25_Uncut = {}

C25_NoHoleCutTwice == th_ran = {"drilling", "board_outline"} => C25_CutTwice = {}

C25_EachHoleCutOnce ==
    th_ran = {"drilling", "board_outline"} =>
        \A i \in 1..Len(th_holes) :
            IF th_holes[i] < th_mill_over
            THEN i \in drilled /\ i \notin milled
            ELSE i \notin drilled /\ i \in milled

\* -------------------------------------------------------------------
\* C26: the through-cut operation emits exactly one tool-change sequence,
\* then all slot passes (every input slot exactly once, with its own
\* width, in nearest-neighbour order from (0,0)), then all milled-hole
\* rings, then the outline walk, then the end sequence: no slot move
\* follows a hole move and no hole or slot move follows an outline move.
\* -------------------------------------------------------------------
C26_Rank(kind) ==
    CASE kind = "toolchange" -> 0
      [] kind = "slot" -> 1
      [] kind = "hole" -> 2
      [] kind = "walk" -> 3
      [] kind = "end" -> 4

C26_SlotMoves == {j \in 1..Len(oc_out) : oc_out[j].kind = "slot"}

C26_SectionsInOrder ==
    oc_pc = "done" =>
        /\ Cardinality({j \in 1..Len(oc_out) : oc_out[j].kind = "toolchange"}) = 1
        /\ oc_out[1].kind = "toolchange"
        /\ oc_out[Len(oc_out)].kind = "end"
        /\ \A j \in 1..(Len(oc_out) - 1) :
              C26_Rank(oc_out[j].kind) <= C26_Rank(oc_out[j + 1].kind)

\* a one-to-one match of input slots and slot moves: same end points, same width
C26_EverySlotOnce ==
    oc_pc = "done" =>
        \E f \in [1..Len(oc_slots) -> C26_SlotMoves] :
            /\ \A i \in 1..Len(oc_slots) :
                  /\ {oc_out[f[i]].p1, oc_out[f[i]].p2} = {oc_slots[i].p1, oc_slots[i].p2}
                  /\ oc_out[f[i]].w = oc_slots[i].w
            /\ \A i \in 1..Len(oc_slots) : \A j \in 1..Len(oc_slots) : f[i] = f[j] => i = j
            /\ \A j \in C26_SlotMoves : \E i \in 1..Len(oc_slots) : f[i] = j

\* each slot move starts at an end point nearest to where the previous one ended
C26_SlotsNearestFirst ==
    oc_pc = "done" =>
        \A j \in C26_SlotMoves :
            LET from == IF j - 1 \in C26_SlotMoves THEN oc_out[j - 1].p2 ELSE 0
            IN  \A h \in C26_SlotMoves :
                    h >= j =>
                        /\ Abs(oc_out[j].p1 - from) <= Abs(oc_out[h].p1 - from)
                        /\ Abs(oc_out[j].p1 - from) <= Abs(oc_out[h].p2 - from)

C26_ThroughCutOrder == C26_SectionsInOrder /\ C26_EverySlotOnce /\ C26_SlotsNearestFirst

\* -------------------------------------------------------------------
\* C27: with strict=False a D01 draw or D03 flash whose current aperture
\* is not in the aperture table is skipped: it leaves the recorded draws,
\* the recorded flashes and both polarity buckets unchanged and only
\* updates the previous point, so it adds no toolpath to any operation,
\* including silkscreen engraving, which uses the raw draws.
\* -------------------------------------------------------------------
C27_UndefinedOp ==
    /\ ap_pc = "parsing" /\ ~ap_strict
    /\ ap_no < Len(ap_lines)
    /\ ap_lines[ap_no + 1].op \in {"D01", "D03"}
    /\ ap_cur # <<>> /\ ap_cur[1] \notin ap_table
    /\ ap_lines[ap_no + 1].op = "D01" => ap_prev # <<>>

C27_UndefinedApertureSkipped ==
    [][C27_UndefinedOp =>
          /\ tracks' = tracks
          /\ flashes' = flashes
          /\ ap_dark' = ap_dark
          /\ ap_clear' = ap_clear
          /\ silk_segs(tracks') = silk_segs(tracks)
          /\ ap_prev' = <<ap_lines[ap_no + 1].pt>>]_vars

\* -------------------------------------------------------------------
\* C28: in every output file, user-supplied probe lines aside, every G0
\* move that carries X or Y is issued while the last commanded Z is a
\* positive retract height (safe, travel or tool-change Z): between a move
\* that sets Z to a cut depth and the next rapid XY move there is a G0 Z
\* retract, within each operation and across operation boundaries of a
\* combined file.
\* -------------------------------------------------------------------
C28_Retracts == {"G0 Zsafe", "G0 Ztravel", "G0 Ztc"}

C28_RapidsXY == {"G0 XY", "G0 XYpark"}

\* In f a retract precedes every rapid XY move, and a retract lies between
\* every plunge and every later rapid XY move.
C28_FileSafe(f) ==
    LET own == {i \in 1..Len(f) : f[i].src # "probe"}
        ups == {i \in own : f[i].cmd \in C28_Retracts}
        downs == {i \in own : f[i].cmd = "G1 Z"}
        rapids == {i \in own : f[i].cmd \in C28_RapidsXY}
    IN  /\ \A j \in rapids : \E i \in ups : i < j
        /\ \A p \in downs : \A j \in rapids : p < j => \E i \in ups : p < i /\ i < j

C28_RapidsAboveWork == \A fn \in FileNames : C28_FileSafe(files[fn].lines)

\* a combined file in which a rapid XY move of one operation follows a
\* plunge of another
C28_Witness ==
    /\ combined
    /\ result = "done"
    /\ \E i, j \in 1..Len(CombinedLines) :
          /\ i < j
          /\ CombinedLines[i].cmd = "G1 Z" /\ CombinedLines[i].src \in OpKeys
          /\ CombinedLines[j].cmd = "G0 XY" /\ CombinedLines[j].src \in OpKeys
          /\ CombinedLines[i].src # CombinedLines[j].src

\* -------------------------------------------------------------------
\* C29: while an Excellon file is parsed the recorded holes only grow:
\* every XY hit made in drill mode under a defined, selected tool is still
\* in all_holes() with that tool's diameter when parsing ends, also when a
\* tool definition line for the same tool id appears again later.
\* -------------------------------------------------------------------
C29_HitsAreKept == td_no = Len(td_lines) => td_hits \subseteq all_holes(td_tools)

\* -------------------------------------------------------------------
\* C30: after the outline walk with tabs disabled every arc-length
\* position in [0, L] has been traversed by a cutting move at full depth
\* and the arc-length position of the tool never decreases, for ramp_len = 0
\* and for every ramp_len > 0 (the stretch of the ramp entry included).
\* -------------------------------------------------------------------
C30_CutThrough(a) ==
    \E i \in 1..Len(tool_moves) :
        /\ tool_moves[i].depth = "full"
        /\ Min(tool_moves[i].from, tool_moves[i].to) <= a
        /\ a + 1 <= Max(tool_moves[i].from, tool_moves[i].to)

C30_NeverBackwards == \A i \in 1..Len(tool_moves) : tool_moves[i].from <= tool_moves[i].to

C30_OutlineCutThrough ==
    (walk_pc = "done" /\ ~tabs_enabled) =>
        /\ \A a \in 0..(length - 1) : C30_CutThrough(a)
        /\ C30_NeverBackwards
====
